---- MODULE Spec2Model ----
(***************************************************************************)
(* grindhousebot: the price handler (rolling windows, strategy frames,     *)
(* evaluation rounds, registry reconciliation), the signal aggregator and  *)
(* the websocket transport, modelled from the sources under src/.          *)
(*                                                                         *)
(* asyncio is cooperative: a coroutine runs without interruption from one  *)
(* real suspension point (a network await) to the next, so every action    *)
(* below is one such uninterrupted stretch of code.                        *)
(***************************************************************************)
EXTENDS Naturals, Integers, Sequences, FiniteSets, TLC

(***************************************************************************)
(* Bounds of the model.                                                    *)
(***************************************************************************)
\* Instrument universe of the exchange.
Symbols == {"A", "B", "C"}
\* Strategy kinds activated in a run of the price handler.
Kinds == {"bollinger"}
\* Strategy kinds and symbols of the aggregator's inputs.
AggKinds == {"rsi", "macd"}
\* the strategy lifecycle is explored with these kinds and symbols; "all" is
\* StrategyType.ALL
LifeKinds == {"harmonic", "bollinger", "all"}
LifeSymbols == {"A"}
\* generate_signals is applied to instances of these kinds and to price maps
\* over these symbols, at most MaxGenCalls times
GenKinds == {"bollinger", "volume_profile"}
GenSymbols == {"A", "B"}
MaxGenCalls == 2
AggSymbols == {"A", "B"}
\* Candle topics of the transport.
Topics == {"kline.A", "kline.B", "kline.C"}
\* Candle open times delivered by the feed are 1..MaxTime.
MaxTime == 2
\* Window capacity: 150 in the source, scaled down.
FIXED_WINDOW_SIZE == 2
\* Largest number of candles the history fetch returns.
MaxHist == 1
\* Number of confirmed candles of tracked symbols handled in a run.
MaxCandles == 2
\* Number of reconciliation passes in a run.
MaxPasses == 1
\* Number of calls of the aggregator on one input.
MaxAggCalls == 2
\* Number of connections the transport establishes in a run.
MaxConnects == 2
\* Number of subscriptions registered at a time.
MaxSubs == 2
\* at most MaxInbox frames are on their way from the server
MaxInbox == 1
\* candles fed to a window studied on its own, and their open times
MaxFed == 4
\* confirmed candles handled when consecutive rounds are studied
MaxRoundCandles == 4
MaxWinTime == 4

Times == 1..MaxTime
\* _current_candle_time = None
NoTime == 0
None == "None"

(***************************************************************************)
(* Python containers.                                                      *)
(***************************************************************************)
\* {} : a dict with no key
EmptyDict == [x \in {} |-> None]
\* d[k] = v
Put(d, k, v) == [x \in (DOMAIN d) \cup {k} |-> IF x = k THEN v ELSE d[x]]
\* d.pop(k, None)
Pop(d, k) == [x \in (DOMAIN d) \ {k} |-> d[x]]
Range(s) == {s[i] : i \in DOMAIN s}
\* insertion order of a dict's keys after d[k] = v
OrderPut(order, k) == IF k \in Range(order) THEN order ELSE Append(order, k)
\* insertion order of a dict's keys after d.pop(k, None)
OrderPop(order, k) == SelectSeq(order, LAMBDA x : x # k)
\* s[-k:] of a Python sequence (s[-0:] is the whole sequence)
LastK(s, k) ==
  IF k = 0 \/ k >= Len(s) THEN s ELSE SubSeq(s, Len(s) - k + 1, Len(s))
SetMin(S) == CHOOSE m \in S : \A x \in S : m <= x
SetMax(S) == CHOOSE m \in S : \A x \in S : m >= x
RECURSIVE SortedSeq(_)
SortedSeq(S) ==
  IF S = {} THEN << >>
  ELSE LET m == SetMin(S) IN << m >> \o SortedSeq(S \ {m})
HasDuplicates(s) == Cardinality(Range(s)) < Len(s)

(***************************************************************************)
(* Rolling windows and strategy frames.  A candle is modelled by its       *)
(* open_time; a window or frame is the sequence of its candles' times.     *)
(***************************************************************************)
\* a deque without maxlen
deque_append_unbounded(dq, t) == Append(dq, t)
\* a full window that refuses the new candle instead of evicting
deque_append_keep_oldest(dq, t) ==
  IF Len(dq) >= FIXED_WINDOW_SIZE THEN dq ELSE Append(dq, t)
\* collections.deque(maxlen=FIXED_WINDOW_SIZE).append
deque_append(dq, t) == LastK(Append(dq, t), FIXED_WINDOW_SIZE)
\* deque(klines, maxlen=FIXED_WINDOW_SIZE)
deque_init(klines) == LastK(klines, FIXED_WINDOW_SIZE)
\* handle_price_update: pd.concat([df, new_data]) and the truncation
handler_frame_append(df, t) ==
  LET c == Append(df, t)
  IN  IF Len(c) > FIXED_WINDOW_SIZE THEN LastK(c, FIXED_WINDOW_SIZE) ELSE c
\* SignalStrategy.window, set from SignalConfig.window = FIXED_WINDOW_SIZE
StrategyWindow == FIXED_WINDOW_SIZE
\* generate_signals: append to an existing frame, drop duplicated index
\* entries (keep='last') and sort by index
strategy_frame_update(df, t) ==
  LET c == IF Len(df) >= StrategyWindow
           THEN Append(LastK(df, StrategyWindow - 1), t)
           ELSE Append(df, t)
  IN  IF HasDuplicates(c) THEN SortedSeq(Range(c)) ELSE c
\* min_candles of a strategy, scaled: 15 for RSI, 21 for Bollinger, 27 for
\* MACD and 30 for Harmonic in the source become 1; 50 for Volume Profile
\* and senkou_period + displacement for Ichimoku become 2
min_candles(k) ==
  IF k \in {"rsi", "bollinger", "macd", "harmonic"} THEN 1 ELSE 2
\* get_klines(symbol, interval, limit): at most limit candles, taken to be
\* in ascending order of open time
Klines(limit) ==
  {[i \in 1..n |-> i] : n \in 0..(IF limit < MaxHist THEN limit ELSE MaxHist)}

(***************************************************************************)
(* SignalHandler.                                                          *)
(***************************************************************************)
\* confidence_weights, in hundredths; .get(strategy, 0.5)
confidence_weight(k) ==
  IF k = "rsi" THEN 80
  ELSE IF k = "macd" THEN 70
  ELSE IF k = "bollinger" THEN 75
  ELSE IF k = "ichimoku" THEN 85
  ELSE IF k = "volume_profile" THEN 60
  ELSE 50
\* min_confidence_threshold = 0.7, in hundredths
min_confidence_threshold == 70
RECURSIVE SumWeights(_)
SumWeights(ks) ==
  IF ks = {} THEN 0
  ELSE LET k == CHOOSE x \in ks : TRUE
       IN  confidence_weight(k) + SumWeights(ks \ {k})
\* a combination in which only the heaviest member adds to the numerator
create_aggregated_signal_diluted(sym, group, signal_type) ==
  IF DOMAIN group = {} THEN << >>
  ELSE LET total_weight == SumWeights(DOMAIN group)
           weighted_confidence ==
             SetMax({confidence_weight(k) : k \in DOMAIN group})
       IN  IF total_weight = 0 THEN << >>
           ELSE LET confidence == (weighted_confidence * 100) \div total_weight
                IN  IF confidence < min_confidence_threshold THEN << >>
                    ELSE << [symbol |-> sym,
                             signal_type |-> signal_type,
                             confidence |-> confidence,
                             timestamp |->
                               SetMax({group[k].timestamp : k \in DOMAIN group}),
                             supporting_signals |-> DOMAIN group] >>
\* _create_aggregated_signal(signals, signal_type): the aggregated signal of
\* one direction group of one symbol as a one-element sequence, or << >> for
\* None.  group is the map from the kinds of the group to their SignalData;
\* confidence is in hundredths.
create_aggregated_signal(sym, group, signal_type) ==
  IF DOMAIN group = {} THEN << >>
  ELSE LET total_weight == SumWeights(DOMAIN group)
           \* weighted_confidence += weight
           weighted_confidence == SumWeights(DOMAIN group)
       IN  IF total_weight = 0 THEN << >>
           ELSE LET confidence == (weighted_confidence * 100) \div total_weight
                IN  IF confidence < min_confidence_threshold THEN << >>
                    ELSE << [symbol |-> sym,
                             signal_type |-> signal_type,
                             confidence |-> confidence,
                             timestamp |->
                               SetMax({group[k].timestamp : k \in DOMAIN group}),
                             supporting_signals |-> DOMAIN group] >>
\* the aggregated signals of one symbol, BUY group first
symbol_aggregates(sym, strategy_signals) ==
  LET buy == [k \in {x \in DOMAIN strategy_signals :
                       strategy_signals[x].signal_type = "buy"}
                |-> strategy_signals[k]]
      sell == [k \in {x \in DOMAIN strategy_signals :
                        strategy_signals[x].signal_type # "buy"}
                 |-> strategy_signals[k]]
  IN  create_aggregated_signal(sym, buy, "buy")
        \o create_aggregated_signal(sym, sell, "sell")
RECURSIVE aggregate_unsorted(_, _)
aggregate_unsorted(sigs, order) ==
  IF order = << >> THEN << >>
  ELSE symbol_aggregates(Head(order), sigs[Head(order)])
         \o aggregate_unsorted(sigs, Tail(order))
\* sorted(..., key=confidence, reverse=True): a stable sort
RECURSIVE stable_sort_desc(_)
stable_sort_desc(s) ==
  IF s = << >> THEN << >>
  ELSE LET m == SetMax({s[i].confidence : i \in DOMAIN s})
           i0 == SetMin({i \in DOMAIN s : s[i].confidence = m})
       IN  << s[i0] >>
             \o stable_sort_desc([j \in 1..(Len(s) - 1) |->
                                    IF j < i0 THEN s[j] ELSE s[j + 1]])
\* aggregate_signals(signals); order is the insertion order of the dict's keys
aggregate_signals(sigs, order) == stable_sort_desc(aggregate_unsorted(sigs, order))

(***************************************************************************)
(* State.                                                                  *)
(***************************************************************************)
VARIABLES
  phase,               \* "constructed", "initializing" (initialize() is
                       \* gathering the history fetches) or "running"
  init_pending,        \* symbols whose _initialize_symbol_data is in flight
  symbols,             \* PriceHandler.symbols
  symbols_lock,        \* holder of PriceHandler.symbols_lock, or None
  price_data,          \* PriceHandler.price_data: symbol -> deque
  signals,             \* PriceHandler.signals: symbol -> kind -> SignalData
  signals_order,       \* insertion order of the keys of signals
  strategies,          \* keys of PriceHandler.strategies
  strategy_instances,  \* _strategy_instances: kind -> dataframes of the
                       \* instance (symbol -> frame)
  updated_symbols,     \* PriceHandler._updated_symbols
  current_candle_time, \* PriceHandler._current_candle_time
  emitting,            \* handlers suspended in _process_aggregated_signals
  check_pc,            \* where the _check_symbols task is
  current_symbols,     \* _check_symbols: current_symbols
  delisted_symbols,    \* _check_symbols: delisted_symbols
  check_new,           \* _check_symbols: new_symbols not yet iterated
  check_sym,           \* _check_symbols: the loop variable symbol
  reported,            \* history: symbols that reported the current round
  round_done,          \* history: the current round reached completion
  round_emitted,       \* history: the sink was invoked for the current round
  pass_result,         \* history: how the last reconciliation pass ended
  event,               \* history: the last step handled an unconfirmed frame
  n_candles,           \* confirmed candles handled so far
  n_passes,            \* reconciliation passes started so far
  last_call,           \* history: the last strategy call, its argument and
                       \* how it ended
  agg_input,           \* aggregator: the signals dict passed to a call
  agg_output,          \* aggregator: what the last call returned
  agg_calls,           \* aggregator: calls made so far
  gen_kind,            \* strategy: the kind of the instance
  gen_frames,          \* strategy: SignalStrategy.dataframes
  gen_input,           \* strategy: the prices passed to the last call, their
                       \* iteration order and where each symbol fails
  gen_out,             \* strategy: the dict the last call returned
  gen_computed,        \* history: symbols whose indicator the call computed
  gen_raised,          \* history: the last call raised to its caller
  gen_calls,           \* strategy: calls made so far
  ws_running,          \* BybitWsClient._running
  websocket,           \* BybitWsClient.websocket: 0 (None) or the number
                       \* of the connection it refers to
  ws_open,             \* that connection is open
  ws_task,             \* where the _process_messages task is
  subscriptions,       \* BybitWsClient.subscriptions
  server_subscribed,   \* topics subscribed on the open connection
  dispatched,          \* history: topics routed on the current connection
  inbox,               \* frames the server has sent on the open connection
                       \* and the receive loop has not read yet
  received,            \* history: the frame the last step read, or NoFrame
  invoked,             \* history: the handler invocations the last step made
  ws_reported,         \* history: what the last subscribe or unsubscribe
                       \* call reported to its caller
  ws_disconnect,       \* where a disconnect() call is: "idle" (none under
                       \* way, none returned since the last connect()),
                       \* "closing" (awaiting websocket.close()),
                       \* "closing_connected" (the same, connect() called
                       \* meanwhile), "returned"
  n_connects,          \* connections established so far
  window,              \* a rolling window: deque(maxlen=FIXED_WINDOW_SIZE)
  window_fed,          \* history: every candle the window was given, in
                       \* the order given
  rsi_values,          \* RSI: (Current RSI, Previous RSI), what
                       \* calculate_indicator returned
  rsi_op,              \* RSI: the call made on the values: "none",
                       \* "process" or "analyze_market"
  rsi_returned,        \* RSI: what the call returned: << >> (None) or
                       \* << the Signal >>
  handler_tasks,       \* symbols with a handle_price_update task that was
                       \* created by the receive loop and has not finished
  rsi_confidence,      \* history: << final_confidence >> as analyze_market
                       \* computed it, in thousandths, or << >> (no
                       \* confidence was computed)
  macd_recent_hist,    \* MACD: the recent histogram values that
                       \* calculate_indicator returned, the current last
  macd_op,             \* MACD: the call made on the values: "none",
                       \* "process" or "analyze_market"
  macd_result          \* MACD: what the call did: the signal type whose
                       \* branch analyze_market took (None: no branch) and
                       \* what was returned, << >> or << the Signal >>

win_vars == << window, window_fed >>
\* the variables of the functions studied on their own
rsi_vars == << rsi_values, rsi_op, rsi_returned, rsi_confidence >>
task_vars == << handler_tasks >>
macd_vars == << macd_recent_hist, macd_op, macd_result >>
unit_vars == << win_vars, rsi_vars, task_vars, macd_vars >>
agg_vars == << agg_input, agg_output, agg_calls >>
gen_vars ==
  << gen_kind, gen_frames, gen_input, gen_out, gen_computed, gen_raised,
     gen_calls >>
ws_vars ==
  << ws_running, websocket, ws_open, ws_task, subscriptions,
     server_subscribed, dispatched, n_connects, inbox, received, invoked,
     ws_reported, ws_disconnect >>
handler_vars ==
  << symbols, price_data, signals, signals_order, strategies,
     strategy_instances, updated_symbols, current_candle_time, emitting >>
check_vars ==
  << symbols_lock, check_pc, current_symbols, delisted_symbols, check_new,
     check_sym >>
history_vars == << reported, round_done, round_emitted, pass_result >>
ph_vars ==
  << phase, init_pending, handler_vars, check_vars, history_vars, event,
     n_candles, n_passes, last_call >>

\* whether the step handles a frame whose confirm field is false or missing
Event(op, c) == c \in {"false", "missing"}
\* the strategy calls leave the other components alone
life_only == UNCHANGED << agg_vars, gen_vars, ws_vars, unit_vars >>
\* so do the other steps of the price handler, which are no strategy calls
ph_only ==
  UNCHANGED << agg_vars, gen_vars, ws_vars, unit_vars, last_call >>
\* the record of a strategy call
Call(op, arg, result) == [op |-> op, arg |-> arg, result |-> result]

\* PriceHandler.__init__
PhInit ==
  /\ phase = "constructed"
  /\ init_pending = {}
  /\ symbols = {}
  /\ symbols_lock = None
  /\ price_data = EmptyDict
  /\ signals = EmptyDict
  /\ signals_order = << >>
  /\ strategies = {}
  /\ strategy_instances = EmptyDict
  /\ updated_symbols = {}
  /\ current_candle_time = NoTime
  /\ emitting = 0
  /\ check_pc = "not_started"
  /\ current_symbols = {}
  /\ delisted_symbols = {}
  /\ check_new = {}
  /\ check_sym = None
  /\ reported = {}
  /\ round_done = FALSE
  /\ round_emitted = FALSE
  /\ pass_result = None
  /\ event = Event("init", None)
  /\ n_candles = 0
  /\ n_passes = 0
  /\ last_call = Call(None, {}, None)

(***************************************************************************)
(* PriceHandler.add_strategy and initialize.                               *)
(***************************************************************************)
\* StrategyFactory._strategies: the kinds with a registered class
RegisteredKinds ==
  {"rsi", "macd", "bollinger", "ichimoku", "harmonic", "volume_profile"}
\* add_strategy without the early return: the instance is created anew
add_strategy_recreate(k) ==
  /\ life_only
  /\ event' = Event("add_strategy", None)
  /\ strategies' = strategies \cup {k}
  /\ IF k \in RegisteredKinds
     THEN /\ strategy_instances' = Put(strategy_instances, k, EmptyDict)
          /\ last_call' = Call("add_strategy", {k}, "returned")
     ELSE /\ UNCHANGED strategy_instances
          /\ last_call' = Call("add_strategy", {k}, "raised")
  /\ UNCHANGED << phase, init_pending, symbols, price_data, signals,
                  signals_order, updated_symbols, current_candle_time,
                  emitting, check_vars, history_vars, n_candles, n_passes >>
\* add_strategy(strategy_type): the configuration is stored before the
\* factory is asked for the instance, so a ValueError of create_strategy
\* leaves the configuration behind
add_strategy(k) ==
  /\ life_only
  /\ event' = Event("add_strategy", None)
  /\ IF k \in strategies
     THEN /\ UNCHANGED << strategies, strategy_instances >>
          /\ last_call' = Call("add_strategy", {k}, "returned")
     ELSE /\ strategies' = strategies \cup {k}
          /\ IF k \in RegisteredKinds
             THEN /\ strategy_instances' =
                       Put(strategy_instances, k, EmptyDict)
                  /\ last_call' = Call("add_strategy", {k}, "returned")
             ELSE /\ UNCHANGED strategy_instances
                  /\ last_call' = Call("add_strategy", {k}, "raised")
  /\ UNCHANGED << phase, init_pending, symbols, price_data, signals,
                  signals_order, updated_symbols, current_candle_time,
                  emitting, check_vars, history_vars, n_candles, n_passes >>

\* remove_strategy that clears every pending signal
remove_signals_all(sigs, k) == [s \in DOMAIN sigs |-> EmptyDict]
\* for symbol_signals in self.signals.values(): symbol_signals.pop(k, None)
remove_signals(sigs, k) == [s \in DOMAIN sigs |-> Pop(sigs[s], k)]

\* remove_strategy(strategy_type) with a kind
remove_strategy(k) ==
  /\ life_only
  /\ event' = Event("remove_strategy", None)
  /\ strategies' = strategies \ {k}
  /\ strategy_instances' = Pop(strategy_instances, k)
  /\ signals' = remove_signals(signals, k)
  /\ last_call' = Call("remove_strategy", {k}, "returned")
  /\ UNCHANGED << phase, init_pending, symbols, price_data, signals_order,
                  updated_symbols, current_candle_time, emitting, check_vars,
                  history_vars, n_candles, n_passes >>

\* remove_strategy(None)
remove_all_strategies ==
  /\ life_only
  /\ event' = Event("remove_strategy", None)
  /\ strategies' = {}
  /\ strategy_instances' = EmptyDict
  /\ signals' = EmptyDict
  /\ signals_order' = << >>
  /\ last_call' = Call("remove_strategy", {}, "returned")
  /\ UNCHANGED << phase, init_pending, symbols, price_data, updated_symbols,
                  current_candle_time, emitting, check_vars, history_vars,
                  n_candles, n_passes >>

\* the strategy lists _parse_strategies returns: StrategyType.ALL is
\* filtered out
ListenRequests == (SUBSET (LifeKinds \ {"all"})) \ {{}}
\* CommandHandler._start_signal_listener(message, strategies) when the price
\* handler exists: the kinds that are not active are added, and the reply
\* names them or says that all were active already
start_signal_listener(ks) ==
  /\ life_only
  /\ phase # "constructed"
  /\ event' = Event("listen", None)
  /\ LET new_strategies == ks \ strategies
     IN  /\ strategies' = strategies \cup new_strategies
         /\ strategy_instances' =
              [k \in (DOMAIN strategy_instances) \cup new_strategies |->
                 IF k \in new_strategies THEN EmptyDict
                 ELSE strategy_instances[k]]
         /\ last_call' =
              Call("listen", new_strategies,
                   IF new_strategies # {} THEN "listening" ELSE "already")
  /\ UNCHANGED << phase, init_pending, symbols, price_data, signals,
                  signals_order, updated_symbols, current_candle_time,
                  emitting, check_vars, history_vars, n_candles, n_passes >>

\* initialize(), up to the gather of the history fetches; listed is the
\* result of get_usdt_instruments()
initialize_begin(listed) ==
  /\ ph_only
  /\ phase = "constructed"
  /\ strategies # {}
  /\ phase' = "initializing"
  /\ init_pending' = listed
  /\ event' = Event("initialize", None)
  /\ UNCHANGED << handler_vars, check_vars, history_vars, n_candles, n_passes >>

\* the dataframes of every instance after "Initialize strategy data"
init_frames(insts, sym, dq) ==
  [k \in DOMAIN insts |->
     IF sym \in DOMAIN insts[k] THEN insts[k] ELSE Put(insts[k], sym, dq)]

\* _initialize_symbol_data(symbol) from initialize(): the continuation after
\* get_klines returned klines; the lock is free and taken without waiting
initialize_symbol_ok(sym, klines) ==
  /\ ph_only
  /\ phase = "initializing"
  /\ sym \in init_pending
  /\ symbols_lock = None
  /\ init_pending' = init_pending \ {sym}
  /\ symbols' = symbols \cup {sym}
  /\ price_data' = Put(price_data, sym, deque_init(klines))
  /\ strategy_instances' =
       init_frames(strategy_instances, sym, deque_init(klines))
  /\ event' = Event("init_symbol", None)
  /\ UNCHANGED << phase, signals, signals_order, strategies, updated_symbols,
                  current_candle_time, emitting, check_vars, history_vars,
                  n_candles, n_passes >>

\* _initialize_symbol_data(symbol) from initialize(): get_klines raised
initialize_symbol_fail(sym) ==
  /\ ph_only
  /\ phase = "initializing"
  /\ sym \in init_pending
  /\ init_pending' = init_pending \ {sym}
  /\ event' = Event("init_symbol_failed", None)
  /\ UNCHANGED << phase, handler_vars, check_vars, history_vars, n_candles,
                  n_passes >>

\* initialize() after the gather: the _check_symbols task is created; the
\* caller then subscribes the handler to the candle topics
initialize_done ==
  /\ ph_only
  /\ phase = "initializing"
  /\ init_pending = {}
  /\ phase' = "running"
  /\ check_pc' = "sleep"
  /\ event' = Event("initialized", None)
  /\ UNCHANGED << init_pending, handler_vars, symbols_lock, current_symbols,
                  delisted_symbols, check_new, check_sym, history_vars,
                  n_candles, n_passes >>

(***************************************************************************)
(* PriceHandler.handle_price_update.  The candle record of a frame is its  *)
(* start time and its confirm field ("true", "false" or "missing").        *)
(***************************************************************************)
ConfirmValues == {"true", "false", "missing"}
\* candle.get('confirm', True)
candle_confirm_default_true(c) == c # "false"
\* candle.get('confirm', False)
candle_confirm(c) == c = "true"
\* the timeframe check is skipped: no round is ever reset
new_timeframe_never(cur, t) == FALSE
\* if self._current_candle_time != candle_time
new_timeframe(cur, t) == cur # t
\* a handler that keeps the pending signals when a new timeframe starts
clear_signals_never(reset, sigs) == sigs
\* self.signals.clear() when the candle starts a new timeframe
clear_signals(reset, sigs) == IF reset THEN EmptyDict ELSE sigs
\* len(self._updated_symbols) == len(self.symbols)
round_complete(updated, syms) == Cardinality(updated) = Cardinality(syms)
\* "Update price history"
update_price_history(pd, sym, t) ==
  IF sym \in DOMAIN pd THEN Put(pd, sym, deque_append(pd[sym], t)) ELSE pd
\* "Update strategy dataframes"
update_strategy_dataframes(insts, sym, t) ==
  [k \in DOMAIN insts |->
     IF sym \in DOMAIN insts[k]
     THEN Put(insts[k], sym, handler_frame_append(insts[k][sym], t))
     ELSE insts[k]]
\* generate_signals({symbol: price}) of every instance: the frames
generate_frames(insts, sym, t) ==
  [k \in DOMAIN insts |->
     IF sym \notin DOMAIN insts[k]
     THEN Put(insts[k], sym, << t >>)
     ELSE Put(insts[k], sym, strategy_frame_update(insts[k][sym], t))]
\* whether analyze_market of the kind takes (df, indicator_value), as
\* process() passes them: RSIStrategy and MACDStrategy take the indicator
\* values alone, the call raises and process() returns None
analyze_market_takes_frame(k) == k \notin {"rsi", "macd"}
\* what process(symbol) may return for a frame: None below min_candles,
\* otherwise whatever the indicator says
process_results(k, df) ==
  IF Len(df) >= min_candles(k) /\ analyze_market_takes_frame(k)
  THEN {"none", "buy", "sell"}
  ELSE {"none"}
\* _check_signals: the signals dict after storing the signals of out
store_signals(sigs, sym, out, t) ==
  LET fired == {k \in DOMAIN out : out[k] # "none"}
      old == IF sym \in DOMAIN sigs THEN sigs[sym] ELSE EmptyDict
  IN  IF fired = {} THEN sigs
      ELSE Put(sigs, sym,
               [k \in (DOMAIN old) \cup fired |->
                  IF k \in fired
                  THEN [signal_type |-> out[k], timestamp |-> t]
                  ELSE old[k]])

\* a frame for a symbol that is not tracked: dropped before data is read
handle_untracked(sym, c) ==
  /\ ph_only
  /\ phase = "running"
  /\ sym \notin symbols
  /\ event' = Event("candle", c)
  /\ UNCHANGED << phase, init_pending, handler_vars, check_vars, history_vars,
                  n_candles, n_passes >>

\* a frame of a tracked symbol whose candle is not confirmed: dropped before
\* the start time is read
handle_unconfirmed(sym, c) ==
  /\ ph_only
  /\ phase = "running"
  /\ sym \in symbols
  /\ ~candle_confirm(c)
  /\ event' = Event("candle", c)
  /\ UNCHANGED << phase, init_pending, handler_vars, check_vars, history_vars,
                  n_candles, n_passes >>

\* a confirmed candle of a tracked symbol, up to the end of the handler or to
\* its suspension in _process_aggregated_signals (format and send)
confirmed_candle(sym, t, c) ==
  /\ ph_only
  /\ phase = "running"
  /\ sym \in symbols
  /\ candle_confirm(c)
  /\ n_candles' = n_candles + 1
  /\ event' = Event("candle", c)
  /\ LET reset == new_timeframe(current_candle_time, t)
         upd0 == IF reset THEN {} ELSE updated_symbols
         sig0 == clear_signals(reset, signals)
         ord0 == IF reset THEN << >> ELSE signals_order
         pd1 == update_price_history(price_data, sym, t)
         inst1 == update_strategy_dataframes(strategy_instances, sym, t)
         check == Len(pd1[sym]) >= 2
         inst2 == IF check THEN generate_frames(inst1, sym, t) ELSE inst1
     IN  \E out \in [DOMAIN strategy_instances -> {"none", "buy", "sell"}] :
           /\ \A k \in DOMAIN out :
                out[k] \in (IF check THEN process_results(k, inst2[k][sym])
                            ELSE {"none"})
           /\ LET sig1 == store_signals(sig0, sym, out, t)
                  ord1 == IF sym \in DOMAIN sig1 THEN OrderPut(ord0, sym)
                          ELSE ord0
                  upd1 == upd0 \cup {sym}
                  done == round_complete(upd1, symbols)
                  aggregated == aggregate_signals(sig1, ord1)
              IN  /\ current_candle_time' = t
                  /\ price_data' = pd1
                  /\ strategy_instances' = inst2
                  /\ signals' = sig1
                  /\ signals_order' = ord1
                  /\ reported' = (IF reset THEN {} ELSE reported) \cup {sym}
                  /\ round_done' = (done \/ (~reset /\ round_done))
                  /\ round_emitted' = ((done /\ aggregated # << >>)
                                         \/ (~reset /\ round_emitted))
                  /\ IF done /\ aggregated # << >>
                     THEN \* suspended in the sink; the clear comes later
                          /\ emitting' = emitting + 1
                          /\ updated_symbols' = upd1
                     ELSE /\ emitting' = emitting
                          /\ updated_symbols' = IF done THEN {} ELSE upd1
  /\ UNCHANGED << phase, init_pending, symbols, strategies, check_vars,
                  pass_result, n_passes >>

\* a confirmed candle of a tracked symbol whose record has its start time
\* but a price or volume field that float() rejects (or that is missing):
\* the timeframe check has run when PriceData(...) raises, and the except
\* clause of the handler only logs
malformed_candle(sym, t) ==
  /\ ph_only
  /\ phase = "running"
  /\ sym \in symbols
  /\ n_candles' = n_candles + 1
  /\ event' = Event("candle", "true")
  /\ LET reset == new_timeframe(current_candle_time, t)
     IN  /\ current_candle_time' = t
         /\ updated_symbols' = IF reset THEN {} ELSE updated_symbols
         /\ signals' = clear_signals(reset, signals)
         /\ signals_order' = IF reset THEN << >> ELSE signals_order
         /\ reported' = IF reset THEN {} ELSE reported
         /\ round_done' = (~reset /\ round_done)
         /\ round_emitted' = (~reset /\ round_emitted)
  /\ UNCHANGED << phase, init_pending, symbols, price_data, strategies,
                  strategy_instances, emitting, check_vars, pass_result,
                  n_passes >>

\* a confirmed candle of a tracked symbol, while the candle budget lasts
handle_confirmed(sym, t, c) ==
  /\ n_candles < MaxCandles
  /\ confirmed_candle(sym, t, c)

\* handle_price_update(data, symbol)
handle_price_update(sym, t, c) ==
  \/ handle_untracked(sym, c)
  \/ handle_unconfirmed(sym, c)
  \/ handle_confirmed(sym, t, c)

\* a handler resumes after the sink: self._updated_symbols.clear()
emission_resume ==
  /\ ph_only
  /\ emitting > 0
  /\ emitting' = emitting - 1
  /\ updated_symbols' = {}
  /\ event' = Event("emitted", None)
  /\ UNCHANGED << phase, init_pending, symbols, price_data, signals,
                  signals_order, strategies, strategy_instances,
                  current_candle_time, check_vars, history_vars, n_candles,
                  n_passes >>

(***************************************************************************)
(* PriceHandler._check_symbols, the periodic reconciliation task.          *)
(* check_pc: "sleep" (asyncio.sleep), "fetch" (awaiting                     *)
(* get_usdt_instruments), "klines" (awaiting get_klines for check_sym),    *)
(* "lock_wait" (_initialize_symbol_data waiting for symbols_lock),         *)
(* "send_new" / "send_delisted" (awaiting channel.send).  pass_result:     *)
(* "running", "completed", "fetch_failed" (no instrument list) or          *)
(* "aborted" (an error after the list was read).                           *)
(***************************************************************************)
CheckTask == "check_symbols"

\* the state of a delisted symbol is dropped
delist_symbols(syms, sym) == syms \ {sym}
delist_price_data(pd, sym) == Pop(pd, sym)
\* the pending signals of a delisted symbol are kept
delist_signals_kept(sigs, sym) == sigs
\* self.signals.pop(symbol, None)
delist_signals(sigs, sym) == Pop(sigs, sym)
delist_dataframes(insts, sym) ==
  [k \in DOMAIN insts |-> Pop(insts[k], sym)]

\* the body of "async with self.symbols_lock", resumed with new_todo still to
\* iterate, up to its next suspension or to the release of the lock
check_loop(new_todo) ==
  IF new_todo # {}
  THEN \* for symbol in new_symbols: await self._initialize_symbol_data(symbol)
       \E sym \in new_todo :
         /\ check_sym' = sym
         /\ check_new' = new_todo \ {sym}
         /\ check_pc' = "klines"
         /\ symbols_lock' = CheckTask
         /\ event' = Event("check_new", None)
         /\ pass_result' = "running"
         /\ UNCHANGED << symbols, price_data, signals, signals_order,
                         strategy_instances >>
  ELSE IF delisted_symbols' \cap symbols # {}
  THEN \* for symbol in delisted_symbols: remove, then await channel.send
       \E sym \in delisted_symbols' \cap symbols :
         /\ check_sym' = sym
         /\ check_new' = {}
         /\ check_pc' = "send_delisted"
         /\ symbols_lock' = CheckTask
         /\ symbols' = delist_symbols(symbols, sym)
         /\ price_data' = delist_price_data(price_data, sym)
         /\ signals' = delist_signals(signals, sym)
         /\ signals_order' = OrderPop(signals_order, sym)
         /\ strategy_instances' = delist_dataframes(strategy_instances, sym)
         /\ event' = Event("delisted", None)
         /\ pass_result' = "running"
  ELSE \* the lock is released and the loop goes back to sleep
       /\ check_sym' = check_sym
       /\ check_new' = {}
       /\ check_pc' = "sleep"
       /\ symbols_lock' = None
       /\ event' = Event("pass_end", None)
       /\ pass_result' = "completed"
       /\ UNCHANGED << symbols, price_data, signals, signals_order,
                       strategy_instances >>

check_frame ==
  UNCHANGED << phase, init_pending, strategies, updated_symbols,
               current_candle_time, emitting, reported, round_done, round_emitted,
               n_candles >>

\* asyncio.sleep(3600) returns: the instrument list is requested
check_wake ==
  /\ ph_only
  /\ check_pc = "sleep"
  /\ n_passes < MaxPasses
  /\ n_passes' = n_passes + 1
  /\ check_pc' = "fetch"
  /\ event' = Event("check_wake", None)
  /\ pass_result' = "running"
  /\ UNCHANGED << phase, init_pending, handler_vars, symbols_lock,
                  current_symbols, delisted_symbols, check_new, check_sym,
                  reported, round_done, round_emitted, n_candles >>

\* the except clause is outside the while loop: the task ends
check_fetch_fail_stops ==
  /\ ph_only
  /\ check_pc = "fetch"
  /\ check_pc' = "stopped"
  /\ event' = Event("check_fetch_failed", None)
  /\ pass_result' = "fetch_failed"
  /\ UNCHANGED << phase, init_pending, handler_vars, symbols_lock,
                  current_symbols, delisted_symbols, check_new, check_sym,
                  reported, round_done, round_emitted, n_candles, n_passes >>

\* get_usdt_instruments() raised: logged, back to sleep
check_fetch_fail ==
  /\ ph_only
  /\ check_pc = "fetch"
  /\ check_pc' = "sleep"
  /\ event' = Event("check_fetch_failed", None)
  /\ pass_result' = "fetch_failed"
  /\ UNCHANGED << phase, init_pending, handler_vars, symbols_lock,
                  current_symbols, delisted_symbols, check_new, check_sym,
                  reported, round_done, round_emitted, n_candles, n_passes >>

\* get_usdt_instruments() returned listed: the differences are computed and
\* the lock, which nothing else holds across a suspension, is taken
check_fetch_ok(listed) ==
  /\ ph_only
  /\ check_pc = "fetch"
  /\ symbols_lock = None
  /\ current_symbols' = listed
  /\ delisted_symbols' = symbols \ listed
  /\ check_loop(listed \ symbols)
  /\ check_frame
  /\ UNCHANGED n_passes

\* get_klines raised inside _initialize_symbol_data: caught there; the
\* "New symbol listed" message is sent all the same
check_klines_fail ==
  /\ ph_only
  /\ check_pc = "klines"
  /\ check_pc' = "send_new"
  /\ event' = Event("check_klines_failed", None)
  /\ UNCHANGED << phase, init_pending, handler_vars, symbols_lock,
                  current_symbols, delisted_symbols, check_new, check_sym,
                  history_vars, n_candles, n_passes >>

\* get_klines returned inside _initialize_symbol_data: the deque is built and
\* "async with self.symbols_lock" is reached.  asyncio.Lock is not reentrant
\* and _check_symbols holds it, so the task waits for itself.
check_klines_ok ==
  /\ ph_only
  /\ check_pc = "klines"
  /\ symbols_lock = CheckTask
  /\ check_pc' = "lock_wait"
  /\ event' = Event("check_klines_ok", None)
  /\ UNCHANGED << phase, init_pending, handler_vars, symbols_lock,
                  current_symbols, delisted_symbols, check_new, check_sym,
                  history_vars, n_candles, n_passes >>

\* channel.send("New symbol listed") returned
check_send_new_done ==
  /\ ph_only
  /\ check_pc = "send_new"
  /\ UNCHANGED << current_symbols, delisted_symbols >>
  /\ check_loop(check_new)
  /\ check_frame
  /\ UNCHANGED n_passes

\* channel.send raised inside the lock: the lock is released, the error is
\* logged and the rest of the pass is skipped
check_send_failed ==
  /\ ph_only
  /\ check_pc \in {"send_new", "send_delisted"}
  /\ check_pc' = "sleep"
  /\ symbols_lock' = None
  /\ check_new' = {}
  /\ pass_result' = "aborted"
  /\ event' = Event("check_send_failed", None)
  /\ UNCHANGED << phase, init_pending, handler_vars, current_symbols,
                  delisted_symbols, check_sym, reported, round_done, round_emitted,
                  n_candles, n_passes >>

\* channel.send("Symbol delisted") returned
check_send_delisted_done ==
  /\ ph_only
  /\ check_pc = "send_delisted"
  /\ UNCHANGED << current_symbols, delisted_symbols >>
  /\ check_loop({})
  /\ check_frame
  /\ UNCHANGED n_passes

(***************************************************************************)
(* The price handler's specification.                                      *)
(***************************************************************************)
PhNext ==
  \/ \E k \in Kinds : add_strategy(k)
  \/ \E listed \in SUBSET Symbols : initialize_begin(listed)
  \/ \E sym \in Symbols, kl \in Klines(FIXED_WINDOW_SIZE) :
       initialize_symbol_ok(sym, kl)
  \/ \E sym \in Symbols : initialize_symbol_fail(sym)
  \/ initialize_done
  \/ \E sym \in Symbols, c \in ConfirmValues : handle_untracked(sym, c)
  \/ \E sym \in Symbols, c \in ConfirmValues : handle_unconfirmed(sym, c)
  \/ \E sym \in Symbols, t \in Times, c \in ConfirmValues :
       handle_confirmed(sym, t, c)
  \/ emission_resume
  \/ check_wake
  \/ check_fetch_fail
  \/ \E listed \in SUBSET Symbols : check_fetch_ok(listed)
  \/ check_klines_fail
  \/ check_klines_ok
  \/ check_send_new_done
  \/ check_send_failed
  \/ check_send_delisted_done

\* the strategy lifecycle: activation and deactivation while candles arrive
LifeNext ==
  \/ \E k \in LifeKinds : add_strategy(k)
  \/ \E ks \in ListenRequests : start_signal_listener(ks)
  \/ \E k \in LifeKinds : remove_strategy(k)
  \/ remove_all_strategies
  \/ \E listed \in SUBSET LifeSymbols : initialize_begin(listed)
  \/ \E sym \in LifeSymbols, kl \in Klines(FIXED_WINDOW_SIZE) :
       initialize_symbol_ok(sym, kl)
  \/ \E sym \in LifeSymbols : initialize_symbol_fail(sym)
  \/ initialize_done
  \/ \E sym \in LifeSymbols, t \in Times, c \in ConfirmValues :
       handle_confirmed(sym, t, c)
  \/ emission_resume

vars == << ph_vars, agg_vars, gen_vars, ws_vars, unit_vars >>

(***************************************************************************)
(* SignalHandler.aggregate_signals as a function of its input.             *)
(***************************************************************************)
\* SignalData, as far as aggregation reads it
SignalDatas == [signal_type : {"buy", "sell"}, timestamp : Times]
\* the inner dicts of PriceHandler.signals: kind -> SignalData
StrategySignals == UNION {[K -> SignalDatas] : K \in SUBSET AggKinds}
\* the insertion orders a dict with the keys S can have
Orders(S) == {o \in [1..Cardinality(S) -> S] : Range(o) = S}
\* Dict[str, Dict[StrategyType, SignalData]]
AggInputs ==
  UNION {{[sigs |-> f, order |-> o] : f \in [S -> StrategySignals],
                                      o \in Orders(S)} :
         S \in SUBSET AggSymbols}

\* no call of the aggregator is under way
AggIdle ==
  /\ agg_input = [sigs |-> EmptyDict, order |-> << >>]
  /\ agg_output = << >>
  /\ agg_calls = 0

AggInit ==
  /\ agg_input \in AggInputs
  /\ agg_output = << >>
  /\ agg_calls = 0

\* an aggregation that consumes its input: the dict is cleared
aggregate_call_consuming ==
  /\ agg_calls < MaxAggCalls
  /\ agg_calls' = agg_calls + 1
  /\ agg_output' = aggregate_signals(agg_input.sigs, agg_input.order)
  /\ agg_input' = [sigs |-> EmptyDict, order |-> << >>]
  /\ UNCHANGED << ph_vars, gen_vars, ws_vars, unit_vars >>

\* signal_handler.aggregate_signals(signals)
aggregate_call ==
  /\ agg_calls < MaxAggCalls
  /\ agg_calls' = agg_calls + 1
  /\ agg_output' = aggregate_signals(agg_input.sigs, agg_input.order)
  /\ UNCHANGED << agg_input, ph_vars, gen_vars, ws_vars, unit_vars >>

(***************************************************************************)
(* SignalStrategy.generate_signals (strategies/base.py) as a function of   *)
(* the instance's frames and of its input.  A symbol's processing may      *)
(* raise while its frame is updated ("frame_error": to_datetime, to_dict   *)
(* or concat raises) or while its indicator is computed or evaluated       *)
(* ("indicator_error").                                                    *)
(***************************************************************************)
Faults == {"ok", "frame_error", "indicator_error"}
Verdicts == {"none", "buy", "sell"}
\* the min_candles test is left out
enough_data_unchecked(k, df) == TRUE
\* len(self.dataframes[symbol]) >= self.min_candles
enough_data(k, df) == Len(df) >= min_candles(k)
\* the except clause is outside the for loop
except_in_loop_missing == FALSE
\* the try/except Exception is the body of the for loop
except_in_loop == TRUE
\* process(symbol): None when calculate_indicator or analyze_market raises,
\* otherwise what analyze_market returns
process(fault, verdict) == IF fault = "indicator_error" THEN "none" ELSE verdict
\* one iteration of the for loop: the frames afterwards, the entry of the
\* result, whether the indicator was computed, whether an exception reached
\* the except clause
generate_symbol(k, frames, sym, t, fault, verdict) ==
  IF fault = "frame_error"
  THEN [frames |-> frames, out |-> "none", computed |-> FALSE, error |-> TRUE]
  ELSE LET df == IF sym \notin DOMAIN frames THEN << t >>
                 ELSE strategy_frame_update(frames[sym], t)
           enough == enough_data(k, df)
       IN  [frames |-> Put(frames, sym, df),
            out |-> IF enough THEN process(fault, verdict) ELSE "none",
            computed |-> enough,
            error |-> FALSE]
\* for symbol, price in prices.items(), over the symbols of order
RECURSIVE generate_loop(_, _, _, _, _, _)
generate_loop(k, order, prices, faults, verdicts, acc) ==
  IF order = << >> THEN acc
  ELSE LET sym == Head(order)
           r == generate_symbol(k, acc.frames, sym, prices[sym], faults[sym],
                                verdicts[sym])
       IN  IF r.error /\ ~except_in_loop
           THEN [acc EXCEPT !.raised = TRUE]
           ELSE generate_loop(k, Tail(order), prices, faults, verdicts,
                  [frames |-> r.frames,
                   out |-> Put(acc.out, sym, r.out),
                   computed |-> IF r.computed THEN acc.computed \cup {sym}
                                ELSE acc.computed,
                   raised |-> FALSE])

\* the frames an instance may hold before a call
GenFrames ==
  UNION {[S -> Klines(StrategyWindow)] : S \in SUBSET GenSymbols}
\* the inputs of a call: a price (its timestamp) for each symbol of a
\* non-empty set, the order of the dict, and the fault of each symbol
GenInputs ==
  UNION {{[prices |-> pr, order |-> o, faults |-> f] :
            pr \in [S -> Times], o \in Orders(S), f \in [S -> Faults]} :
         S \in (SUBSET GenSymbols) \ {{}}}

\* no strategy instance is exercised
GenIdle ==
  /\ gen_kind = None
  /\ gen_frames = EmptyDict
  /\ gen_input = [prices |-> EmptyDict, order |-> << >>, faults |-> EmptyDict]
  /\ gen_out = EmptyDict
  /\ gen_computed = {}
  /\ gen_raised = FALSE
  /\ gen_calls = 0

\* SignalStrategy.__init__ of some kind, with frames put in place as
\* _initialize_symbol_data does
GenInit ==
  /\ gen_kind \in GenKinds
  /\ gen_frames \in GenFrames
  /\ gen_input = [prices |-> EmptyDict, order |-> << >>, faults |-> EmptyDict]
  /\ gen_out = EmptyDict
  /\ gen_computed = {}
  /\ gen_raised = FALSE
  /\ gen_calls = 0

\* strategy.generate_signals(prices)
generate_signals(input, verdicts) ==
  /\ gen_calls < MaxGenCalls
  /\ gen_calls' = gen_calls + 1
  /\ gen_input' = input
  /\ LET r == generate_loop(gen_kind, input.order, input.prices, input.faults,
                            verdicts,
                            [frames |-> gen_frames, out |-> EmptyDict,
                             computed |-> {}, raised |-> FALSE])
     IN  /\ gen_frames' = r.frames
         /\ gen_out' = r.out
         /\ gen_computed' = r.computed
         /\ gen_raised' = r.raised
  /\ UNCHANGED << gen_kind, ph_vars, agg_vars, ws_vars, unit_vars >>

GenNext ==
  \E input \in GenInputs :
    \E verdicts \in [DOMAIN input.prices -> Verdicts] :
      generate_signals(input, verdicts)

(***************************************************************************)
(* BybitWsClient (clients/bybit_ws.py).  ws_task: "none" (no task),        *)
(* "connecting" (in connect(url)), "receiving" (in the async for),         *)
(* "backoff" (in asyncio.sleep(5)).  The server's side of a connection is  *)
(* the set of topics subscribed on it.                                     *)
(***************************************************************************)
\* the topic lists a caller subscribes or unsubscribes
TopicLists == (SUBSET Topics) \ {{}}
\* the frames the server sends.  An "ack" frame carries a success field, a
\* "data" frame a topic and data and no success field, an "other" frame is
\* anything else (invalid JSON, or neither success nor topic and data).
\* The data of a frame is modelled by its candle's start time.
AckFrame(success) ==
  [kind |-> "ack", topic |-> None, data |-> NoTime, success |-> success]
DataFrame(topic, d) ==
  [kind |-> "data", topic |-> topic, data |-> d, success |-> TRUE]
OtherFrame == [kind |-> "other", topic |-> None, data |-> NoTime, success |-> TRUE]
NoFrame == [kind |-> "none", topic |-> None, data |-> NoTime, success |-> TRUE]
\* topic.split('.')[-1]
topic_symbol(topic) == CHOOSE sym \in Symbols : topic = "kline." \o sym
\* topics with a registered subscription
RegisteredTopics == UNION {subscriptions[i].topics : i \in DOMAIN subscriptions}
\* every subscription is taken, whatever its topics
route_all(subs, topic) == DOMAIN subs
\* for sub in self.subscriptions: if topic in sub['topics']
route(subs, topic) == {i \in DOMAIN subs : topic \in subs[i].topics}

\* BybitWsClient.__init__
WsInit ==
  /\ ws_running = TRUE
  /\ websocket = 0
  /\ ws_open = FALSE
  /\ ws_task = "none"
  /\ subscriptions = << >>
  /\ server_subscribed = {}
  /\ dispatched = {}
  /\ n_connects = 0
  /\ inbox = << >>
  /\ received = NoFrame
  /\ invoked = {}
  /\ ws_reported = None
  /\ ws_disconnect = "idle"

ws_only == UNCHANGED << ph_vars, agg_vars, gen_vars, unit_vars >>
\* a step that reads no frame
no_frame == received' = NoFrame /\ invoked' = {}

\* connect(): the _process_messages task is created
ws_connect ==
  /\ ws_only
  /\ ws_task = "none"
  /\ ws_running' = TRUE
  /\ ws_task' = "connecting"
  /\ ws_disconnect' =
       IF ws_disconnect \in {"closing", "closing_connected"}
       THEN "closing_connected" ELSE "idle"
  /\ no_frame
  /\ UNCHANGED << websocket, ws_open, subscriptions, server_subscribed,
                  dispatched, n_connects, inbox, ws_reported >>

\* the task is not cancelled
task_not_cancelled(task) == task
\* self._process_task.cancel() and await self._process_task: CancelledError
\* is raised at the await the task is suspended in (connect, the async for
\* or the sleep), is no Exception, and ends the task
task_cancelled(task) == "none"

\* disconnect() up to await self.websocket.close(), or to its end when
\* self.websocket is None.  Leaving the async with closes the connection.
disconnect_cancel ==
  /\ ws_only
  /\ ws_disconnect \in {"idle", "returned"}
  /\ ws_running' = FALSE
  /\ ws_task' = task_cancelled(ws_task)
  /\ ws_open' = FALSE
  /\ server_subscribed' = {}
  /\ inbox' = << >>
  /\ ws_disconnect' = IF websocket # 0 THEN "closing" ELSE "returned"
  /\ no_frame
  /\ UNCHANGED << websocket, subscriptions, dispatched, n_connects,
                  ws_reported >>

\* disconnect(): websocket.close() returned; self.websocket = None.  The
\* connection closed is the one self.websocket refers to now.
disconnect_close ==
  /\ ws_only
  /\ ws_disconnect \in {"closing", "closing_connected"}
  /\ websocket' = 0
  /\ ws_open' = FALSE
  /\ server_subscribed' = {}
  /\ inbox' = << >>
  /\ ws_disconnect' = IF ws_disconnect = "closing" THEN "returned" ELSE "idle"
  /\ no_frame
  /\ UNCHANGED << ws_running, ws_task, subscriptions, dispatched, n_connects,
                  ws_reported >>

\* _process_messages: connect(url) succeeded; self.websocket = websocket.
\* Nothing is sent on the new connection.
process_connected ==
  /\ ws_only
  /\ ws_task = "connecting"
  /\ ws_running
  /\ n_connects < MaxConnects
  /\ n_connects' = n_connects + 1
  /\ websocket' = n_connects + 1
  /\ ws_open' = TRUE
  /\ server_subscribed' = {}
  /\ dispatched' = {}
  /\ ws_task' = "receiving"
  /\ inbox' = << >>
  /\ no_frame
  /\ UNCHANGED << ws_running, subscriptions, ws_reported, ws_disconnect >>

\* _process_messages: connect(url) raised; the loop sleeps 5 seconds
process_connect_failed ==
  /\ ws_only
  /\ ws_task = "connecting"
  /\ ws_running
  /\ ws_task' = "backoff"
  /\ no_frame
  /\ UNCHANGED << ws_running, websocket, ws_open, subscriptions,
                  server_subscribed, dispatched, n_connects, inbox,
                  ws_reported, ws_disconnect >>

\* the server sends the data of a topic subscribed on the connection
server_send_data(topic, d) ==
  /\ ws_only
  /\ ws_open
  /\ topic \in server_subscribed
  /\ Len(inbox) < MaxInbox
  /\ inbox' = Append(inbox, DataFrame(topic, d))
  /\ no_frame
  /\ UNCHANGED << ws_running, websocket, ws_open, ws_task, subscriptions,
                  server_subscribed, dispatched, n_connects, ws_reported,
                  ws_disconnect >>

\* the server sends a frame that is neither an acknowledgement nor data
server_send_other ==
  /\ ws_only
  /\ ws_open
  /\ Len(inbox) < MaxInbox
  /\ inbox' = Append(inbox, OtherFrame)
  /\ no_frame
  /\ UNCHANGED << ws_running, websocket, ws_open, ws_task, subscriptions,
                  server_subscribed, dispatched, n_connects, ws_reported,
                  ws_disconnect >>

\* the handler invocations a frame causes: create_task(
\* sub['handler'].handle_price_update(data['data'], symbol)) for every
\* subscription holding the topic
invocations(subs, frame) ==
  IF frame.kind = "data"
  THEN {[sub |-> i, handler |-> subs[i].handler, data |-> frame.data,
         symbol |-> topic_symbol(frame.topic)] :
          i \in route(subs, frame.topic)}
  ELSE {}

\* _process_messages: one iteration of the async for; a frame with a success
\* field is skipped whatever the field says, a frame that does not decode
\* or has no topic and data is skipped too
read_frame ==
  /\ ws_task = "receiving"
  /\ ws_running
  /\ inbox # << >>
  /\ inbox' = Tail(inbox)
  /\ received' = Head(inbox)
  /\ invoked' = invocations(subscriptions, Head(inbox))
  /\ dispatched' =
       IF invocations(subscriptions, Head(inbox)) # {}
       THEN dispatched \cup {Head(inbox).topic}
       ELSE dispatched
  /\ UNCHANGED << ws_running, websocket, ws_open, ws_task, subscriptions,
                  server_subscribed, n_connects, ws_reported, ws_disconnect >>
\* the receive loop reads a frame; the handler tasks it creates are not
\* followed
process_message ==
  /\ ws_only
  /\ read_frame

\* the symbols of the handler tasks a step of the receive loop created
created_tasks(invs) == {i.symbol : i \in invs}
\* a receive loop that awaits the handler it calls: the next frame is read
\* when no handler is running
dispatch_message_awaiting ==
  /\ handler_tasks = {}
  /\ read_frame
  /\ handler_tasks' =
       handler_tasks \cup created_tasks(invocations(subscriptions, Head(inbox)))
  /\ UNCHANGED << ph_vars, agg_vars, gen_vars, win_vars, rsi_vars,
                  macd_vars >>
\* the receive loop reads a frame and leaves each invocation to its own
\* task: asyncio.create_task(handler.handle_price_update(...))
dispatch_message ==
  /\ read_frame
  /\ handler_tasks' =
       handler_tasks \cup created_tasks(invocations(subscriptions, Head(inbox)))
  /\ UNCHANGED << ph_vars, agg_vars, gen_vars, win_vars, rsi_vars,
                  macd_vars >>
\* a handler task runs to its end
handler_finish(sym) ==
  /\ sym \in handler_tasks
  /\ handler_tasks' = handler_tasks \ {sym}
  /\ no_frame
  /\ UNCHANGED << ph_vars, agg_vars, gen_vars, win_vars, rsi_vars,
                  macd_vars >>
  /\ UNCHANGED << ws_running, websocket, ws_open, ws_task, subscriptions,
                  server_subscribed, dispatched, n_connects, inbox,
                  ws_reported, ws_disconnect >>

\* the connection is lost: the async for raises ConnectionClosed, the
\* except branch logs and sleeps; self.websocket keeps the dead connection
process_connection_lost ==
  /\ ws_only
  /\ ws_task = "receiving"
  /\ ws_running
  /\ ws_open' = FALSE
  /\ server_subscribed' = {}
  /\ ws_task' = "backoff"
  /\ inbox' = << >>
  /\ no_frame
  /\ UNCHANGED << ws_running, websocket, subscriptions, dispatched,
                  n_connects, ws_reported, ws_disconnect >>

\* the server closes the connection normally: the async for ends and the
\* while loop connects again at once
process_connection_closed ==
  /\ ws_only
  /\ ws_task = "receiving"
  /\ ws_running
  /\ ws_open' = FALSE
  /\ server_subscribed' = {}
  /\ ws_task' = "connecting"
  /\ inbox' = << >>
  /\ no_frame
  /\ UNCHANGED << ws_running, websocket, subscriptions, dispatched,
                  n_connects, ws_reported, ws_disconnect >>

\* asyncio.sleep(5) returns
process_backoff_done ==
  /\ ws_only
  /\ ws_task = "backoff"
  /\ ws_task' = "connecting"
  /\ no_frame
  /\ UNCHANGED << ws_running, websocket, ws_open, subscriptions,
                  server_subscribed, dispatched, n_connects, inbox,
                  ws_reported, ws_disconnect >>

\* the request frame of subscribe or unsubscribe reaches the server
request_sent == websocket # 0 /\ ws_open
\* what the server's answer to a request adds to the frames on their way
request_answer(accepted) ==
  IF request_sent THEN Append(inbox, AckFrame(accepted)) ELSE inbox

\* subscribe(topics, handler): the frame is sent if self.websocket is set;
\* a send on a dead connection raises and is logged.  The call returns
\* after the send, before any answer is read; accepted is the server's
\* answer to the request
subscribe_call(topics, accepted) ==
  /\ Len(subscriptions) < MaxSubs
  /\ request_sent => Len(inbox) < MaxInbox
  /\ subscriptions' =
       Append(subscriptions, [topics |-> topics, handler |-> "price_handler"])
  /\ server_subscribed' =
       IF request_sent /\ accepted THEN server_subscribed \cup topics
       ELSE server_subscribed
  /\ inbox' = request_answer(accepted)
  /\ ws_reported' = "returned"
  /\ no_frame
  /\ UNCHANGED << ws_running, websocket, ws_open, ws_task, dispatched,
                  n_connects, ws_disconnect >>
\* the call on its own, the other components left alone
subscribe(topics, accepted) == ws_only /\ subscribe_call(topics, accepted)

\* unsubscribe(topics)
unsubscribe_call(topics, accepted) ==
  /\ request_sent => Len(inbox) < MaxInbox
  /\ subscriptions' =
       SelectSeq(subscriptions, LAMBDA sub : ~(sub.topics = topics))
  /\ server_subscribed' =
       IF request_sent /\ accepted THEN server_subscribed \ topics
       ELSE server_subscribed
  /\ inbox' = request_answer(accepted)
  /\ ws_reported' = "returned"
  /\ no_frame
  /\ UNCHANGED << ws_running, websocket, ws_open, ws_task, dispatched,
                  n_connects, ws_disconnect >>
\* the call on its own, the other components left alone
unsubscribe(topics, accepted) ==
  ws_only /\ unsubscribe_call(topics, accepted)

(***************************************************************************)
(* Consecutive rounds of two symbols: the handler with no reconciliation,  *)
(* fed with enough confirmed candles for two complete rounds.              *)
(***************************************************************************)
RoundSymbols == {"A", "B"}
round_candle(sym, t) ==
  /\ n_candles < MaxRoundCandles
  /\ confirmed_candle(sym, t, "true")
RoundNext ==
  \/ \E k \in Kinds : add_strategy(k)
  \/ initialize_begin(RoundSymbols)
  \/ \E sym \in RoundSymbols, kl \in Klines(FIXED_WINDOW_SIZE) :
       initialize_symbol_ok(sym, kl)
  \/ initialize_done
  \/ \E sym \in RoundSymbols, t \in Times : round_candle(sym, t)
  \/ emission_resume

(***************************************************************************)
(* Rounds of two symbols with a strategy whose min_candles equals the      *)
(* window size (Ichimoku: senkou_period + displacement = 150 =             *)
(* FIXED_WINDOW_SIZE) next to one that needs less (Bollinger).             *)
(***************************************************************************)
FullWindowKinds == {"ichimoku", "bollinger"}
FullWindowNext ==
  \/ \E k \in FullWindowKinds : add_strategy(k)
  \/ initialize_begin(RoundSymbols)
  \/ \E sym \in RoundSymbols, kl \in Klines(FIXED_WINDOW_SIZE) :
       initialize_symbol_ok(sym, kl)
  \/ initialize_done
  \/ \E sym \in RoundSymbols, t \in Times : round_candle(sym, t)
  \/ emission_resume

(***************************************************************************)
(* Rounds of two symbols in which a confirmed candle record may be         *)
(* malformed.                                                              *)
(***************************************************************************)
handle_malformed(sym, t) ==
  /\ n_candles < MaxRoundCandles
  /\ malformed_candle(sym, t)
MalformedNext ==
  \/ RoundNext
  \/ \E sym \in RoundSymbols, t \in Times : handle_malformed(sym, t)

(***************************************************************************)
(* The price handler together with the transport's registry: the listener  *)
(* subscribes the handler to the candle topics once initialize() returned. *)
(***************************************************************************)
\* f'kline.{interval}.{symbol}' for symbol in symbols
kline_topics(syms) == {"kline." \o sym : sym \in syms}
\* _start_signal_listener: bybit_ws_client.subscribe([...], price_handler)
\* after price_handler.initialize()
listener_subscribe ==
  /\ phase = "running"
  /\ subscriptions = << >>
  /\ \E accepted \in BOOLEAN : subscribe(kline_topics(symbols), accepted)

(***************************************************************************)
(* Stopping the listener: GrindhouseBot._stop_signal_listener removes the  *)
(* strategy (or all of them) and, when none is left, makes one transport   *)
(* call with the topics of a fresh get_usdt_instruments(), cleans the      *)
(* handler up and drops it.                                                *)
(***************************************************************************)
\* _start_signal_listener(message, strategy) with no price handler yet: the
\* handler is constructed and the strategy added to it
start_first_listener(k) ==
  /\ phase = "constructed"
  /\ strategies = {}
  /\ add_strategy(k)
\* _stop_signal_listener(message, strategy): the kind must be active
stop_signal_listener(k) ==
  /\ phase = "running"
  /\ k \in strategies
  /\ remove_strategy(k)
\* _stop_signal_listener(message): remove_strategy(None)
stop_all_signals ==
  /\ phase = "running"
  /\ strategies # {}
  /\ remove_all_strategies
\* the rest of the stop once no strategy is active: the single-kind branch
\* calls subscribe(topics, price_handler), the stop-all branch calls
\* unsubscribe(topics); listed is get_usdt_instruments().  Then cleanup()
\* and self.price_handler = None: this handler takes no further command
stop_transport_call ==
  /\ phase = "running"
  /\ strategies = {}
  /\ last_call.op = "remove_strategy"
  /\ \E listed \in SUBSET Symbols, accepted \in BOOLEAN :
       IF last_call.arg # {}
       THEN subscribe_call(kline_topics(listed), accepted)
       ELSE unsubscribe_call(kline_topics(listed), accepted)
  /\ last_call' = Call("stop_signal_listener", last_call.arg, "returned")
  /\ event' = Event("cleanup", None)
  /\ UNCHANGED << phase, init_pending, handler_vars, check_vars,
                  history_vars, n_candles, n_passes, agg_vars, gen_vars,
                  unit_vars >>
StopNext ==
  \/ \E k \in Kinds : start_first_listener(k)
  \/ \E listed \in SUBSET Symbols : initialize_begin(listed)
  \/ \E sym \in Symbols, kl \in Klines(FIXED_WINDOW_SIZE) :
       initialize_symbol_ok(sym, kl)
  \/ initialize_done
  \/ listener_subscribe
  \/ \E k \in Kinds : stop_signal_listener(k)
  \/ stop_all_signals
  \/ stop_transport_call

(***************************************************************************)
(* The rolling window of one symbol on its own: price_data[symbol] from    *)
(* its construction in _initialize_symbol_data through the appends of      *)
(* handle_price_update, fed with candles of any open time.                 *)
(***************************************************************************)
WinTimes == 1..MaxWinTime
\* no window is under study
WinIdle ==
  /\ window = << >>
  /\ window_fed = << >>
\* deque([... for k in klines], maxlen=FIXED_WINDOW_SIZE)
WinInit ==
  \E klines \in Klines(FIXED_WINDOW_SIZE) :
    /\ window = deque_init(klines)
    /\ window_fed = klines
\* self.price_data[symbol].append(new_price)
window_append(t) ==
  /\ Len(window_fed) < MaxFed
  /\ window' = deque_append(window, t)
  /\ window_fed' = Append(window_fed, t)
  /\ UNCHANGED << ph_vars, agg_vars, gen_vars, ws_vars, rsi_vars, task_vars,
                  macd_vars >>

(***************************************************************************)
(* RSIStrategy on its own: process() and analyze_market() applied to the   *)
(* pair of oscillator values calculate_indicator returns for a frame of    *)
(* min_candles or more candles.  Oscillator values are whole numbers of    *)
(* 0..100; confidences are in thousandths.                                 *)
(***************************************************************************)
RsiValues == 0..100
\* the fields of the dataclass Signal: name, type, value
Signal_fields == 3
\* the positional arguments RSIStrategy passes to Signal(...)
rsi_signal_args == 4
\* the parameters of RSIStrategy.analyze_market besides self: rsi_values
rsi_analyze_market_params == 1
\* the arguments process() passes to analyze_market: df, indicator_value
process_analyze_market_args == 2
\* Signal(*args), the dataclass constructor: << the instance >>, or << >>
\* when it raises TypeError
Signal(args) ==
  IF Len(args) = Signal_fields
  THEN << [name |-> args[1], type |-> args[2], value |-> args[3]] >>
  ELSE << >>
Min(a, b) == IF a < b THEN a ELSE b
Max(a, b) == IF a > b THEN a ELSE b
\* final_confidence of the oversold branch
oversold_confidence(current_rsi, prev_rsi) ==
  LET rsi_momentum == current_rsi - prev_rsi
      \* base_confidence * 0.6
      base == Min(30 * (30 - current_rsi), 600)
      \* momentum_factor * 0.4
      momentum == IF rsi_momentum < 0
                  THEN Max(400 + 40 * rsi_momentum, 200)
                  ELSE Min(400 + 20 * rsi_momentum, 480)
      combined == Min(base + momentum, 1000)
  IN  IF current_rsi < 20 THEN (combined * 11) \div 10 ELSE combined
\* final_confidence of the overbought branch
overbought_confidence(current_rsi, prev_rsi) ==
  LET rsi_momentum == current_rsi - prev_rsi
      base == Min(30 * (current_rsi - 70), 600)
      momentum == IF rsi_momentum > 0
                  THEN Max(400 - 40 * rsi_momentum, 200)
                  ELSE Min(400 - 20 * rsi_momentum, 480)
      combined == Min(base + momentum, 1000)
  IN  IF current_rsi > 80 THEN (combined * 11) \div 10 ELSE combined
\* RSIStrategy.analyze_market(rsi_values): what it returns, and the
\* final_confidence it computed on the way
analyze_market(values) ==
  LET current_rsi == values[1]
      prev_rsi == values[2]
      type == IF current_rsi < 30 THEN "buy"
              ELSE IF current_rsi > 70 THEN "sell" ELSE None
      final_confidence ==
        IF type = "buy" THEN oversold_confidence(current_rsi, prev_rsi)
        ELSE overbought_confidence(current_rsi, prev_rsi)
      args == << "rsi", type, current_rsi, final_confidence >>
      signal == Signal(SubSeq(args, 1, rsi_signal_args))
  IN  IF type = None
      THEN [returned |-> << >>, final_confidence |-> << >>]
      \* except Exception: return None
      ELSE [returned |-> signal, final_confidence |-> << final_confidence >>]
\* SignalStrategy.process(symbol) once calculate_indicator returned values:
\* analyze_market(df, indicator_value) inside try/except Exception
rsi_process(values) ==
  IF process_analyze_market_args # rsi_analyze_market_params
  THEN [returned |-> << >>, final_confidence |-> << >>]
  ELSE analyze_market(values)
\* no strategy is under study
RsiIdle ==
  /\ rsi_values = << 0, 0 >>
  /\ rsi_op = "none"
  /\ rsi_returned = << >>
  /\ rsi_confidence = << >>
RsiInit ==
  /\ rsi_values \in RsiValues \X RsiValues
  /\ rsi_op = "none"
  /\ rsi_returned = << >>
  /\ rsi_confidence = << >>
\* generate_signals reaches signals[symbol] = self.process(symbol)
process_call ==
  /\ rsi_op = "none"
  /\ rsi_op' = "process"
  /\ rsi_returned' = rsi_process(rsi_values).returned
  /\ rsi_confidence' = rsi_process(rsi_values).final_confidence
  /\ UNCHANGED << rsi_values, ph_vars, agg_vars, gen_vars, ws_vars, win_vars,
                  task_vars, macd_vars >>
\* a caller invokes strategy.analyze_market(rsi_values) itself
analyze_market_call ==
  /\ rsi_op = "none"
  /\ rsi_op' = "analyze_market"
  /\ rsi_returned' = analyze_market(rsi_values).returned
  /\ rsi_confidence' = analyze_market(rsi_values).final_confidence
  /\ UNCHANGED << rsi_values, ph_vars, agg_vars, gen_vars, ws_vars, win_vars,
                  task_vars, macd_vars >>
\* no handler task exists
TasksIdle == handler_tasks = {}

(***************************************************************************)
(* MACDStrategy.analyze_market and SignalStrategy.process on the recent    *)
(* histogram values, which are integers here; only their signs are read    *)
(* when the signal type is chosen.                                         *)
(***************************************************************************)
MaxMacdValue == 2
MaxMacdLen == 3
MacdHists ==
  UNION {[1..n -> (0 - MaxMacdValue)..MaxMacdValue] : n \in 2..MaxMacdLen}
\* the arguments of the Signal(...) calls in MACDStrategy.analyze_market
macd_signal_args == 4
\* the parameters of MACDStrategy.analyze_market besides self: macd_values
macd_analyze_market_params == 1
\* cur_macd > 0 and prev_macd < 0, or cur_macd < 0 and prev_macd > 0: the
\* histogram changed sign between the previous and the current candle
crossover(recent_hist) ==
  LET prev_macd == recent_hist[Len(recent_hist) - 1]
      cur_macd == recent_hist[Len(recent_hist)]
  IN  \/ cur_macd > 0 /\ prev_macd < 0
      \/ cur_macd < 0 /\ prev_macd > 0
\* MACDStrategy.analyze_market(macd_values): the branch taken on the
\* current histogram, and what is returned once Signal(...) was called
macd_analyze_market(recent_hist) ==
  LET curr_hist == recent_hist[Len(recent_hist)]
      type == IF curr_hist < 0 THEN "buy"
              ELSE IF curr_hist > 0 THEN "sell" ELSE None
      args == << "macd", type, "avg_divergence", "final_confidence" >>
      signal == Signal(SubSeq(args, 1, macd_signal_args))
  IN  IF type = None
      THEN [type |-> None, returned |-> << >>]
      \* except Exception: return None
      ELSE [type |-> type, returned |-> signal]
\* SignalStrategy.process(symbol) once calculate_indicator returned values:
\* analyze_market(df, indicator_value) inside try/except Exception
macd_process(recent_hist) ==
  IF process_analyze_market_args # macd_analyze_market_params
  THEN [type |-> None, returned |-> << >>]
  ELSE macd_analyze_market(recent_hist)
MacdIdle ==
  /\ macd_recent_hist = << 0, 0 >>
  /\ macd_op = "none"
  /\ macd_result = [type |-> None, returned |-> << >>]
MacdInit ==
  /\ macd_recent_hist \in MacdHists
  /\ macd_op = "none"
  /\ macd_result = [type |-> None, returned |-> << >>]
\* generate_signals reaches signals[symbol] = self.process(symbol)
macd_process_call ==
  /\ macd_op = "none"
  /\ macd_op' = "process"
  /\ macd_result' = macd_process(macd_recent_hist)
  /\ UNCHANGED << macd_recent_hist, ph_vars, agg_vars, gen_vars, ws_vars,
                  win_vars, rsi_vars, task_vars >>
\* a caller invokes strategy.analyze_market(macd_values) itself
macd_analyze_market_call ==
  /\ macd_op = "none"
  /\ macd_op' = "analyze_market"
  /\ macd_result' = macd_analyze_market(macd_recent_hist)
  /\ UNCHANGED << macd_recent_hist, ph_vars, agg_vars, gen_vars, ws_vars,
                  win_vars, rsi_vars, task_vars >>

UnitIdle == WinIdle /\ RsiIdle /\ TasksIdle /\ MacdIdle

(***************************************************************************)
(* Specifications.                                                         *)
(***************************************************************************)
\* the price handler, fed directly with frames
Init == PhInit /\ AggIdle /\ GenIdle /\ WsInit /\ UnitIdle
Next == PhNext
Spec == Init /\ [][Next]_vars

\* the price handler when the event loop keeps running the reconciliation
\* task: whenever the task can take a step (its sleep is over, or a call it
\* awaits has returned or raised), it eventually takes one
CheckTaskNext ==
  \/ check_wake
  \/ check_fetch_fail
  \/ \E listed \in SUBSET Symbols : check_fetch_ok(listed)
  \/ check_klines_fail
  \/ check_klines_ok
  \/ check_send_new_done
  \/ check_send_failed
  \/ check_send_delisted_done
SpecFair == Init /\ [][Next]_vars /\ WF_vars(CheckTaskNext)

\* the aggregator applied to every bounded input
InitAgg == PhInit /\ AggInit /\ GenIdle /\ WsInit /\ UnitIdle
NextAgg == aggregate_call
SpecAgg == InitAgg /\ [][NextAgg]_vars

\* the strategy lifecycle
InitLife == PhInit /\ AggIdle /\ GenIdle /\ WsInit /\ UnitIdle
NextLife == LifeNext
SpecLife == InitLife /\ [][NextLife]_vars

\* generate_signals applied to bounded instances and price maps
InitGen == PhInit /\ AggIdle /\ GenInit /\ WsInit /\ UnitIdle
NextGen == GenNext
SpecGen == InitGen /\ [][NextGen]_vars

\* the transport
InitWs == PhInit /\ AggIdle /\ GenIdle /\ WsInit /\ UnitIdle
NextWs ==
  \/ ws_connect
  \/ process_connected
  \/ process_connect_failed
  \/ \E topic \in Topics, d \in Times : server_send_data(topic, d)
  \/ server_send_other
  \/ process_message
  \/ process_connection_lost
  \/ process_connection_closed
  \/ process_backoff_done
  \/ \E topics \in TopicLists, accepted \in BOOLEAN :
       subscribe(topics, accepted)
  \/ \E topics \in TopicLists, accepted \in BOOLEAN :
       unsubscribe(topics, accepted)
  \/ disconnect_cancel
  \/ disconnect_close
SpecWs == InitWs /\ [][NextWs]_vars

\* the price handler subscribed to the transport
InitListen == PhInit /\ AggIdle /\ GenIdle /\ WsInit /\ UnitIdle
NextListen == PhNext \/ listener_subscribe
SpecListen == InitListen /\ [][NextListen]_vars

\* consecutive rounds
InitRounds == PhInit /\ AggIdle /\ GenIdle /\ WsInit /\ UnitIdle
NextRounds == RoundNext
SpecRounds == InitRounds /\ [][NextRounds]_vars

\* the receive loop and the handler tasks it creates
InitDispatch == PhInit /\ AggIdle /\ GenIdle /\ WsInit /\ UnitIdle
NextDispatch ==
  \/ ws_connect
  \/ process_connected
  \/ \E topics \in TopicLists, accepted \in BOOLEAN :
       subscribe(topics, accepted)
  \/ \E topic \in Topics, d \in Times : server_send_data(topic, d)
  \/ dispatch_message
  \/ \E sym \in Symbols : handler_finish(sym)
SpecDispatch == InitDispatch /\ [][NextDispatch]_vars

\* rounds with malformed candle records
InitMalformed == PhInit /\ AggIdle /\ GenIdle /\ WsInit /\ UnitIdle
NextMalformed == MalformedNext
SpecMalformed == InitMalformed /\ [][NextMalformed]_vars

\* a strategy that needs a full window
InitFullWindow == PhInit /\ AggIdle /\ GenIdle /\ WsInit /\ UnitIdle
NextFullWindow == FullWindowNext
SpecFullWindow == InitFullWindow /\ [][NextFullWindow]_vars

\* starting and stopping the listener
InitStop == PhInit /\ AggIdle /\ GenIdle /\ WsInit /\ UnitIdle
NextStop == StopNext
SpecStop == InitStop /\ [][NextStop]_vars

\* the rolling window
InitWin ==
  /\ PhInit /\ AggIdle /\ GenIdle /\ WsInit
  /\ WinInit /\ RsiIdle /\ TasksIdle /\ MacdIdle
NextWin == \E t \in WinTimes : window_append(t)
SpecWin == InitWin /\ [][NextWin]_vars

\* the RSI strategy
InitRsi ==
  /\ PhInit /\ AggIdle /\ GenIdle /\ WsInit
  /\ WinIdle /\ RsiInit /\ TasksIdle /\ MacdIdle
NextRsi == process_call \/ analyze_market_call
SpecRsi == InitRsi /\ [][NextRsi]_vars

\* the MACD strategy
InitMacd ==
  /\ PhInit /\ AggIdle /\ GenIdle /\ WsInit
  /\ WinIdle /\ RsiIdle /\ TasksIdle /\ MacdInit
NextMacd == macd_process_call \/ macd_analyze_market_call
SpecMacd == InitMacd /\ [][NextMacd]_vars

(***************************************************************************)
(* Properties of the price handler (specification Spec).                   *)
(***************************************************************************)
StrictlyIncreasing(w) == \A i \in 1..(Len(w) - 1) : w[i] < w[i + 1]
\* everything the handler keeps for symbol s
StateOf(s) ==
  [tracked |-> s \in symbols,
   window |-> IF s \in DOMAIN price_data THEN << price_data[s] >> ELSE << >>,
   pending |-> IF s \in DOMAIN signals THEN << signals[s] >> ELSE << >>,
   frames |-> [k \in DOMAIN strategy_instances |->
                 IF s \in DOMAIN strategy_instances[k]
                 THEN << strategy_instances[k][s] >> ELSE << >>]]
\* the handler keeps nothing for symbol s
NoStateFor(s) ==
  /\ s \notin symbols
  /\ s \notin DOMAIN price_data
  /\ s \notin DOMAIN signals
  /\ \A k \in DOMAIN strategy_instances : s \notin DOMAIN strategy_instances[k]

\* C1: aggregated signals are handed to the sink only in a step after which
\* every currently tracked symbol has reported a confirmed candle with the
\* round's timestamp, whatever _check_symbols did in between.
C1_EmitOnlyWhenAllReported ==
  [][emitting' > emitting => symbols' \subseteq reported']_vars

\* C4: the window of every symbol and every strategy's frame of every symbol
\* hold at most FIXED_WINDOW_SIZE candles.
C4_WindowsBounded ==
  /\ \A s \in DOMAIN price_data : Len(price_data[s]) <= FIXED_WINDOW_SIZE
  /\ \A k \in DOMAIN strategy_instances :
       \A s \in DOMAIN strategy_instances[k] :
         Len(strategy_instances[k][s]) <= FIXED_WINDOW_SIZE
\* a window at capacity after every confirmed candle of the run went to its
\* symbol, the only one tracked
C4_Witness ==
  /\ n_candles = MaxCandles
  /\ n_passes = 0
  /\ \E s \in Symbols :
       /\ symbols = {s}
       /\ Len(price_data[s]) = FIXED_WINDOW_SIZE
       /\ \E k \in DOMAIN strategy_instances :
            s \in DOMAIN strategy_instances[k]

\* C5: a confirmed candle whose open time is not later than the largest
\* open time stored for a tracked symbol leaves that symbol's window and
\* frames as they were (a candle step is a step that counts a candle; its
\* open time is the round timestamp after the step).
C5_StaleCandleIsNoOp ==
  [][n_candles' > n_candles =>
       \A s \in symbols :
         (price_data[s] # << >>
            /\ current_candle_time' <= SetMax(Range(price_data[s])))
         => (StateOf(s)'.window = StateOf(s).window
               /\ StateOf(s)'.frames = StateOf(s).frames)]_vars

\* C6: the open times of every window are strictly increasing, with no
\* duplicate.
C6_WindowsStrictlyIncreasing ==
  \A s \in DOMAIN price_data : StrictlyIncreasing(price_data[s])

\* C7: a frame whose candle has confirm false or missing modifies no
\* window, frame, pending signal, reported set or round timestamp, and
\* evaluates no strategy.
C7_UnconfirmedIsNoOp ==
  [][event' => UNCHANGED << symbols, price_data, strategy_instances, signals,
                            signals_order, updated_symbols,
                            current_candle_time, emitting, reported,
                            round_done, n_candles >>]_vars
\* an unconfirmed frame has just been handled in the middle of a round of
\* three tracked symbols with signals pending
C7_Witness ==
  /\ event
  /\ symbols = Symbols
  /\ updated_symbols # {}
  /\ signals # EmptyDict

\* a pass has ended after the instrument list was read
PassEnded == check_pc = "sleep" /\ pass_result \in {"completed", "aborted"}
\* a pass has run to its end without an error
PassCompleted == check_pc = "sleep" /\ pass_result = "completed"
\* the step removes a symbol: nothing is kept for it and the state of every
\* other listed symbol is unchanged
RemovalIsClean ==
  \A s \in symbols \ symbols' :
    /\ NoStateFor(s)'
    /\ \A o \in current_symbols' \ {s} : StateOf(o)' = StateOf(o)

C9_RoundCompletesWithoutDelisted ==
  (phase = "running" /\ symbols # {} /\ symbols \subseteq reported)
    => round_done

\* C10: a pass that found a listed symbol it does not track and fetched its
\* history ends with the symbol tracked and its window backfilled (a task in
\* "lock_wait" waits for the lock it holds itself and takes no further step).
C10_NewSymbolBackfilled ==
  (check_pc = "lock_wait" /\ symbols_lock = CheckTask)
    => (check_sym \in symbols /\ check_sym \in DOMAIN price_data)

\* C11: for each round timestamp the sink is invoked at most once, and
\* never with an empty aggregated list, repeated deliveries of candles of a
\* completed round included.
C11_SinkOncePerRound ==
  [][emitting' > emitting =>
       /\ ~(round_emitted /\ current_candle_time' = current_candle_time)
       /\ aggregate_signals(signals', signals_order') # << >>]_vars

\* every pending signal carries the timestamp of the current round
PendingAreCurrent ==
  \A s \in DOMAIN signals :
    \A k \in DOMAIN signals[s] :
      signals[s][k].timestamp = current_candle_time
C14_NoPartialActivation ==
  /\ strategies = DOMAIN strategy_instances
  /\ strategies \subseteq RegisteredKinds

C16_RemovalTouchesOnlyItsKind ==
  [][\A k \in strategies :
       remove_strategy(k) =>
         /\ k \notin strategies'
         /\ k \notin DOMAIN strategy_instances'
         /\ \A sym \in DOMAIN signals' : k \notin DOMAIN signals'[sym]
         /\ strategies' = strategies \ {k}
         /\ DOMAIN strategy_instances' = (DOMAIN strategy_instances) \ {k}
         /\ \A k2 \in DOMAIN strategy_instances' :
              strategy_instances'[k2] = strategy_instances[k2]
         /\ DOMAIN signals' = DOMAIN signals
         /\ \A sym \in DOMAIN signals :
              \A k2 \in (DOMAIN signals[sym]) \ {k} :
                /\ k2 \in DOMAIN signals'[sym]
                /\ signals'[sym][k2] = signals[sym][k2]
         /\ price_data' = price_data]_vars
\* rsi was removed while bollinger, active beside it, holds a pending signal
\* and a frame
C16_Witness ==
  /\ last_call = Call("remove_strategy", {"harmonic"}, "returned")
  /\ "bollinger" \in strategies
  /\ \E sym \in DOMAIN signals :
       /\ DOMAIN signals[sym] = {"bollinger"}
       /\ sym \in DOMAIN strategy_instances["bollinger"]
       /\ Len(price_data[sym]) >= 2

(***************************************************************************)
(* Properties of generate_signals (specification SpecGen).                 *)
(***************************************************************************)
\* C17: generate_signals returns None for a symbol whose frame, with the
\* candle of the call in it, holds fewer candles than min_candles, and the
\* indicator is computed only for a frame of at least min_candles.
C17_BelowMinCandlesIsAbsent ==
  gen_calls > 0 =>
    \A sym \in DOMAIN gen_input.prices :
      /\ (sym \in DOMAIN gen_frames
            /\ Len(gen_frames[sym]) < min_candles(gen_kind))
           => (gen_out[sym] = "none" /\ sym \notin gen_computed)
      /\ sym \in gen_computed =>
           (sym \in DOMAIN gen_frames
             /\ Len(gen_frames[sym]) >= min_candles(gen_kind))
\* one call left a symbol below min_candles and computed another
C17_Witness ==
  /\ gen_calls > 0
  /\ \E a \in DOMAIN gen_input.prices, b \in DOMAIN gen_input.prices :
       /\ gen_input.faults[a] = "ok"
       /\ Len(gen_frames[a]) < min_candles(gen_kind)
       /\ gen_out[a] = "none"
       /\ b \in gen_computed
       /\ gen_out[b] = "buy"

\* C18: generate_signals does not raise; its result has one entry for each
\* symbol of the input; a symbol whose processing raised has None, and the
\* other symbols of the call are processed: their candle is in their frame.
C18_OneEntryPerSymbolNoRaise ==
  gen_calls > 0 =>
    /\ ~gen_raised
    /\ DOMAIN gen_out = DOMAIN gen_input.prices
    /\ \A sym \in DOMAIN gen_input.prices :
         /\ gen_out[sym] \in Verdicts
         /\ gen_input.faults[sym] # "ok" => gen_out[sym] = "none"
         /\ gen_input.faults[sym] # "frame_error" =>
              (sym \in DOMAIN gen_frames
                /\ gen_input.prices[sym] \in Range(gen_frames[sym]))
\* the first symbol of a call failed and the second one got a signal
C18_Witness ==
  /\ gen_calls > 0
  /\ Len(gen_input.order) = 2
  /\ gen_input.faults[gen_input.order[1]] = "frame_error"
  /\ gen_input.faults[gen_input.order[2]] = "ok"
  /\ gen_out[gen_input.order[1]] = "none"
  /\ gen_out[gen_input.order[2]] = "sell"

(***************************************************************************)
(* Properties of the aggregator (specification SpecAgg).                   *)
(***************************************************************************)
\* C2: aggregate_signals returns at most one aggregated signal per symbol.
C2_OneAggregatePerSymbol ==
  agg_calls > 0 =>
    \A sym \in AggSymbols :
      Cardinality({i \in DOMAIN agg_output : agg_output[i].symbol = sym}) <= 1

\* confidences, in hundredths, that the members of a group may carry
MemberConfidences == {60, 100}
RECURSIVE SumWeighted(_, _)
SumWeighted(ks, conf) ==
  IF ks = {} THEN 0
  ELSE LET k == CHOOSE x \in ks : TRUE
       IN  confidence_weight(k) * conf[k] + SumWeighted(ks \ {k}, conf)
\* sum(weight_i * confidence_i) / sum(weight_i), in hundredths
WeightedMean(ks, conf) == SumWeighted(ks, conf) \div SumWeights(ks)
\* C13: the combined confidence of every emitted group is the weighted mean
\* of its members' confidences, whatever confidences the members carry, and
\* a group whose weighted mean is below the threshold is not emitted.
C13_ConfidenceIsWeightedMean ==
  agg_calls > 0 =>
    \A i \in DOMAIN agg_output :
      \A conf \in [agg_output[i].supporting_signals -> MemberConfidences] :
        /\ agg_output[i].confidence =
             WeightedMean(agg_output[i].supporting_signals, conf)
        /\ WeightedMean(agg_output[i].supporting_signals, conf)
             >= min_confidence_threshold

(***************************************************************************)
(* Properties of the transport (specification SpecWs).                     *)
(***************************************************************************)
\* C3: on a connection made after a loss, a data frame is routed to a
\* handler only when every registered topic has been subscribed on that
\* connection.
C3_ResubscribedBeforeRouting ==
  [][(websocket' > 1 /\ dispatched' # dispatched /\ dispatched' # {})
       => RegisteredTopics' \subseteq server_subscribed']_vars

\* C19: a received frame invokes handlers only as a data frame of a
\* registered topic: exactly the handlers of the subscriptions holding the
\* topic, with the frame's data and the symbol named by the topic; any other
\* frame invokes none; the receive loop goes on in every case.
C19_OnlyRegisteredDataFramesInvoke ==
  received # NoFrame =>
    /\ ws_task = "receiving"
    /\ \A inv \in invoked :
         /\ received.kind = "data"
         /\ inv.sub \in DOMAIN subscriptions
         /\ received.topic \in subscriptions[inv.sub].topics
         /\ inv.handler = subscriptions[inv.sub].handler
         /\ inv.data = received.data
         /\ received.topic = "kline." \o inv.symbol
    /\ received.kind = "data" =>
         \A i \in DOMAIN subscriptions :
           received.topic \in subscriptions[i].topics
             => \E inv \in invoked : inv.sub = i
    /\ (received.kind # "data" \/ received.topic \notin RegisteredTopics)
         => invoked = {}
\* of two subscriptions, the one holding the frame's topic had its handler
\* invoked and the other had not
C19_Witness ==
  /\ received.kind = "data"
  /\ received.topic = "kline.B"
  /\ received.data = 2
  /\ Len(subscriptions) = 2
  /\ Cardinality(invoked) = 1
  /\ \E inv \in invoked : inv.symbol = "B" /\ inv.data = 2

\* C20: when the server answers a subscribe or unsubscribe request with a
\* failure acknowledgement, the call has reported a failure to its caller.
C20_RejectionReported ==
  (received.kind = "ack" /\ ~received.success) => ws_reported = "failed"

\* C21: once disconnect() has returned and until connect() is called, the
\* receive task is gone, no backoff is pending, the connection is closed
\* and forgotten, and no step connects again or invokes a handler.
C21_DisconnectedStaysQuiet ==
  [][ws_disconnect' = "returned" =>
       /\ ws_task' = "none"
       /\ ~ws_running'
       /\ ~ws_open'
       /\ websocket' = 0
       /\ inbox' = << >>
       /\ ws_disconnect = "returned" =>
            /\ n_connects' = n_connects
            /\ invoked' = {}
            /\ dispatched' = dispatched]_vars
\* disconnect() returned on a client that had connected and routed frames
C21_Witness ==
  /\ ws_disconnect = "returned"
  /\ n_connects >= 1
  /\ dispatched # {}
  /\ subscriptions # << >>

group_of(agg) ==
  LET strategy_signals == agg_input.sigs[agg.symbol]
  IN  [k \in agg.supporting_signals |-> strategy_signals[k]]
\* the group with one more signal of the same direction, from kind k
group_with(group, k, d) ==
  [x \in DOMAIN group \cup {k} |-> IF x = k THEN d ELSE group[x]]
\* C24: a direction group that was emitted is still emitted, with a
\* combined confidence at least as high, when one more signal of the same
\* direction from another kind joins it.
C24_AgreementNeverLowers ==
  agg_calls > 0 =>
    \A i \in DOMAIN agg_output :
      LET agg == agg_output[i]
      IN  \A k \in AggKinds \ agg.supporting_signals :
            \A d \in {x \in SignalDatas : x.signal_type = agg.signal_type} :
              LET more == create_aggregated_signal(
                            agg.symbol, group_with(group_of(agg), k, d),
                            agg.signal_type)
              IN  /\ more # << >>
                  /\ more[1].confidence >= agg.confidence
                  /\ more[1].supporting_signals
                       = agg.supporting_signals \cup {k}
\* a group of one member was emitted, and a group of two
C24_Witness ==
  /\ agg_calls > 0
  /\ \E i \in DOMAIN agg_output :
       Cardinality(agg_output[i].supporting_signals) = 1
  /\ \E i \in DOMAIN agg_output :
       Cardinality(agg_output[i].supporting_signals) = 2

(***************************************************************************)
(* Properties of the rolling window (specification SpecWin).               *)
(***************************************************************************)
\* C25: when the candles given to a window of capacity N had strictly
\* increasing open times, the window is the last min(k, N) of the k given,
\* in the order given.
C25_WindowIsLastN ==
  StrictlyIncreasing(window_fed) =>
    LET k == Len(window_fed)
        m == IF k < FIXED_WINDOW_SIZE THEN k ELSE FIXED_WINDOW_SIZE
    IN  /\ Len(window) = m
        /\ \A i \in 1..m : window[i] = window_fed[k - m + i]
\* more candles than the capacity were given, in increasing order, and the
\* oldest is gone
C25_Witness ==
  /\ StrictlyIncreasing(window_fed)
  /\ Len(window_fed) > FIXED_WINDOW_SIZE
  /\ window_fed[1] \notin Range(window)

(***************************************************************************)
(* Properties of the RSI strategy (specification SpecRsi).                 *)
(***************************************************************************)
\* C26: process(), as generate_signals calls it on enough history, returns
\* a BUY signal carrying the oscillator value when that value is below 30
\* and a SELL signal carrying it when it is above 70, and no other signal.
C26_RsiSignalsPastTheBounds ==
  rsi_op = "process" =>
    LET current_rsi == rsi_values[1]
    IN  /\ current_rsi < 30 =>
             /\ rsi_returned # << >>
             /\ rsi_returned[1].type = "buy"
             /\ rsi_returned[1].value = current_rsi
        /\ current_rsi > 70 =>
             /\ rsi_returned # << >>
             /\ rsi_returned[1].type = "sell"
             /\ rsi_returned[1].value = current_rsi
        /\ current_rsi \in 30..70 => rsi_returned = << >>

C28_DelistedTopicUnsubscribed ==
  \A sym \in delisted_symbols \ symbols :
    LET topic == "kline." \o sym
    IN  /\ topic \notin RegisteredTopics
        /\ \A d \in Times : invocations(subscriptions, DataFrame(topic, d)) = {}

(***************************************************************************)
(* Properties of consecutive rounds (specification SpecRounds).            *)
(***************************************************************************)
\* C29: a handler that resumes from the sink while a later round is under
\* way keeps the symbols that round has recorded as reported, and a round
\* that every tracked symbol has reported is completed.
C29_ResumeKeepsLaterRound ==
  [][/\ (emitting' < emitting /\ ~round_done)
          => reported \subseteq updated_symbols'
     /\ (n_candles' > n_candles /\ symbols \subseteq reported')
          => round_done']_vars

(***************************************************************************)
(* Liveness of reconciliation (specification SpecFair).                    *)
(***************************************************************************)
\* C30: a reconciliation pass that holds symbols_lock eventually releases
\* it.
C30_LockEventuallyReleased ==
  (symbols_lock = CheckTask) ~> (symbols_lock = None)

(***************************************************************************)
(* Concurrency of candle handlers and reconciliation (specification Spec). *)
(***************************************************************************)
\* a reconciliation pass holds symbols_lock and has applied some of its
\* removals while others are still to come
partial_pass ==
  /\ symbols_lock = CheckTask
  /\ delisted_symbols \ symbols # {}
  /\ delisted_symbols \cap symbols # {}
\* C31: no confirmed candle is handled (membership test and round-size
\* comparison on the tracked set) while a reconciliation pass that holds
\* symbols_lock has applied only part of its changes.
C31_RoundSizedOutsidePartialPass ==
  [][n_candles' > n_candles => ~partial_pass]_vars

(***************************************************************************)
(* Properties of dispatch (specification SpecDispatch).                    *)
(***************************************************************************)
\* C32: whenever the receive loop has a frame to read it can read and
\* dispatch it, whatever handler tasks are still running.
C32_HandlersNeverBlockReceive ==
  (ws_task = "receiving" /\ ws_running /\ inbox # << >>)
    => ENABLED dispatch_message
\* a frame of a second topic was routed while the handler of the first was
\* still running
C32_Witness ==
  /\ Cardinality(handler_tasks) >= 2
  /\ received.kind = "data"
  /\ invoked # {}

(***************************************************************************)
(* Unsubscription (specification SpecWs).                                  *)
(***************************************************************************)
\* C33: when unsubscribe(topics) returns, a data frame of any of the topics
\* invokes no handler, whatever topic lists were subscribed before.
C33_UnsubscribedTopicsNotRouted ==
  [][\A topics \in TopicLists, accepted \in BOOLEAN :
       unsubscribe(topics, accepted) =>
         \A topic \in topics, d \in Times :
           invocations(subscriptions', DataFrame(topic, d)) = {}]_vars

(***************************************************************************)
(* Stopping the listener (specification SpecStop).                         *)
(***************************************************************************)
\* C34: when the stop of the last active strategy, by its kind or by
\* stop-all, has made its transport call, no topic is registered for the
\* price handler, so no frame is routed to it any more.
C34_StopLeavesNothingRegistered ==
  [][stop_transport_call => RegisteredTopics' = {}]_vars
\* the same for the stop-all branch alone
StopAllLeavesNothingRegistered ==
  [][(stop_transport_call /\ last_call.arg = {}) =>
       RegisteredTopics' = {}]_vars

(***************************************************************************)
(* Activation on a running handler (specification SpecLife).               *)
(***************************************************************************)
\* C35: when add_strategy(k) activates a registered kind while symbols are
\* tracked, the new instance holds, for every tracked symbol, a frame built
\* from the symbol's canonical window, as an instance present at
\* initialisation does.
C35_FramesSizedAtActivation ==
  [][\A k \in LifeKinds :
       (k \notin strategies /\ k \in RegisteredKinds /\ symbols # {}
          /\ add_strategy(k)) =>
         \A sym \in symbols :
           /\ sym \in DOMAIN strategy_instances'[k]
           /\ strategy_instances'[k][sym] = price_data[sym]]_vars

(***************************************************************************)
(* Malformed candle records (specification SpecMalformed).                 *)
(***************************************************************************)
\* C36: a confirmed candle record with a missing or non-numeric price or
\* volume field leaves the windows, the strategy frames, the pending
\* signals, the reported-symbol set and the round timestamp as they were.
C36_MalformedCandleChangesNothing ==
  [][\A sym \in RoundSymbols, t \in Times :
       handle_malformed(sym, t) =>
         UNCHANGED << price_data, strategy_instances, signals,
                      updated_symbols, current_candle_time >>]_vars
\* what the malformed record does leave alone: windows and frames
MalformedCandleKeepsWindows ==
  [][\A sym \in RoundSymbols, t \in Times :
       handle_malformed(sym, t) =>
         UNCHANGED << price_data, strategy_instances >>]_vars

MacdReturnsNoSignal == macd_result.returned = << >>

(***************************************************************************)
(* Pending signals and the round timestamp (specification SpecLife).       *)
(***************************************************************************)
\* C38: every pending signal carries the current round timestamp, and so
\* does every aggregated signal that the pending signals yield: no
\* aggregated signal combines signals of different rounds.
C38_PendingSignalsOfCurrentRound ==
  /\ \A s \in DOMAIN signals :
       \A k \in DOMAIN signals[s] :
         signals[s][k].timestamp = current_candle_time
  /\ LET aggregated == aggregate_signals(signals, signals_order)
     IN  \A i \in DOMAIN aggregated :
           aggregated[i].timestamp = current_candle_time
\* in the second round a symbol has pending signals of two kinds, which
\* aggregate into one signal supported by both
C38_Witness ==
  /\ current_candle_time = 2
  /\ \E s \in DOMAIN signals :
       /\ Cardinality(DOMAIN signals[s]) = 2
       /\ Len(price_data[s]) = 2
       /\ price_data[s][1] = 1
  /\ LET aggregated == aggregate_signals(signals, signals_order)
     IN  \E i \in DOMAIN aggregated :
           Cardinality(aggregated[i].supporting_signals) = 2

(***************************************************************************)
(* Candles of an earlier round (specification SpecRounds).                 *)
(***************************************************************************)
\* C39: the round timestamp never decreases, and a confirmed candle with an
\* open time before it keeps the reported symbols and the pending signals
\* of the current round.
C39_RoundTimestampNeverDecreases ==
  [][/\ current_candle_time' >= current_candle_time
     /\ \A sym \in RoundSymbols, t \in Times :
          (t < current_candle_time /\ round_candle(sym, t)) =>
            /\ reported \subseteq reported'
            /\ DOMAIN signals \subseteq DOMAIN signals']_vars

(***************************************************************************)
(* Strategies that need a full window (specification SpecFullWindow).      *)
(***************************************************************************)
\* a candle later than every candle of the symbol's window
fresh_candle(sym, t) ==
  /\ sym \in DOMAIN price_data
  /\ \A i \in DOMAIN price_data[sym] : price_data[sym][i] < t
\* C40: when a confirmed, fresh candle brings a symbol's window to
\* FIXED_WINDOW_SIZE candles or finds it there, every active strategy whose
\* min_candles is at most FIXED_WINDOW_SIZE and whose frame held the
\* window's candles is evaluated: the frame its sufficiency check sees has
\* at least min_candles candles.
C40_FullWindowIsSufficient ==
  [][\A sym \in RoundSymbols, t \in Times :
       (/\ fresh_candle(sym, t)
        /\ round_candle(sym, t)
        /\ Len(price_data'[sym]) >= FIXED_WINDOW_SIZE) =>
         \A k \in DOMAIN strategy_instances :
           (/\ min_candles(k) <= FIXED_WINDOW_SIZE
            /\ sym \in DOMAIN strategy_instances[k]
            /\ strategy_instances[k][sym] = price_data[sym]) =>
             enough_data(k, strategy_instances'[k][sym])]_vars
\* the same for the kinds that need less than a full window
BelowWindowIsSufficient ==
  [][\A sym \in RoundSymbols, t \in Times :
       (/\ fresh_candle(sym, t)
        /\ round_candle(sym, t)
        /\ Len(price_data'[sym]) >= FIXED_WINDOW_SIZE) =>
         \A k \in DOMAIN strategy_instances :
           (/\ min_candles(k) < FIXED_WINDOW_SIZE
            /\ sym \in DOMAIN strategy_instances[k]
            /\ strategy_instances[k][sym] = price_data[sym]) =>
             enough_data(k, strategy_instances'[k][sym])]_vars

====
